---- MODULE Spec2Model ----
(***************************************************************************)
(* Polaris: the scheduler's job execution (scheduler_service.py and the    *)
(* schedule / publish CLI commands), the publisher's container lifecycle   *)
(* (publisher.py) and the lead loops (lead_service.py).                    *)
(*                                                                         *)
(* The specifications share one state space:                               *)
(*   SpecSched      scheduled posts, the job store and the CLI commands    *)
(*   SpecSchedLive  the same, with jobs firing and executions ending       *)
(*   SpecSchedRace  the same, with the callback's and cancel's reads and   *)
(*                  writes as separate steps                               *)
(*   SpecPub        one publish_* invocation against the container API     *)
(*   SpecPoll       the same for one container, status codes may be absent *)
(*   SpecLead       poll_triggers runs over remote comments                *)
(*   SpecLeadSeq    poll_triggers runs that do not overlap                 *)
(*   SpecConv       poll_conversations runs over remote threads            *)
(*   SpecFollowUp   the same, leads of two triggers that may be paused     *)
(*   SpecContent    the content lifecycle commands (mark-ready, publish)   *)
(*   SpecMisfire    the scheduler process stopped and started again        *)
(*   SpecJobStore   direct calls of the job-store methods of the service   *)
(*   SpecClient     one Graph API call through the client's retry layers   *)
(* Time is counted in minutes for the scheduler and in seconds for the     *)
(* container polling loop.                                                 *)
(***************************************************************************)
EXTENDS Integers, Sequences, FiniteSets, TLC

\* ------------------------------------------------------------------------
\* Bounds of the model
\* ------------------------------------------------------------------------
MaxPosts == 2
NumContents == 1
MaxNow == 60
MaxCliPublish == 1
MaxTriggers == 2
MaxComments == 2
MaxPolls == 2
MaxClock == 1
NumRunners == 2
MaxInbound == 3
MaxConvPolls == 3
MaxConvClock == 2

\* ------------------------------------------------------------------------
\* Program constants
\* ------------------------------------------------------------------------
DefaultMaxRetries == 3
RetryBackoffMinutes == 5
CliRetryDelayMinutes == 5

\* misfire_grace_time of the job defaults (3600 s), in minutes
MisfireGraceMinutes == 60

NoTime == -1
NoMedia == 0

ScheduleStatus == {"pending", "processing", "published", "failed", "cancelled"}
ContentStatus == {"draft", "ready", "published", "failed"}

ContentIds == 1..NumContents
PostIds == 1..MaxPosts

\* wall-clock minutes at which the process may be started
StartTimes == {35}
\* minutes the scheduler process may stay down
OutageMinutes == {30, 65}
\* token_expires_at values an account may have been connected with
TokenExpiries == {NoTime, 55}
\* media locators a content may carry ("" is the unset locator)
MediaUrls == {"", "u"}

VARIABLES
    now,            \* wall clock, minutes
    account,        \* the InstagramAccount row
    contents,       \* Content rows, by id
    posts,          \* ScheduledPost rows, a sequence indexed by id
    jobs,           \* the job store: jobs scheduled_post_<id> and run times
    pc,             \* position of each job's execution callback
    remotePublished,\* remote media objects created per content
    cli,            \* the immediate-publish CLI command in flight
    last,           \* the operation that ran last (history)
    pub,            \* the publisher invocation in progress
    calls,          \* the calls it has made, in order (history)
    clock,          \* wall clock of the polling loops
    triggers,       \* CommentTrigger rows, a sequence indexed by id
    comments,       \* the comments on the watched post (remote)
    leads,          \* Lead rows, a sequence indexed by id
    replySent,      \* private replies delivered, per comment id (remote)
    replyFailed,    \* comments whose private-reply request failed (history)
    runners,        \* the poll_triggers runs in progress
    polls,          \* poll_triggers runs started so far
    levent,         \* what the polling loops did last (history)
    threads,        \* the DM thread with each user (remote)
    session,        \* Lead objects held by the service's session
    conv,           \* the poll_conversations run in progress
    cpolls,         \* poll_conversations runs started so far
    cevent,         \* what the conversation loop did last (history)
    cmd,            \* the schedule CLI command between its read and its write
    running,        \* the scheduler process is up
    req,            \* the client method call in progress
    http            \* status codes of the HTTP requests it sent (history)

schedVars ==
    <<now, account, contents, posts, jobs, pc, remotePublished, cli, last>>

pubVars == <<pub, calls>>

leadVars ==
    <<clock, triggers, comments, leads, replySent, replyFailed, runners,
      polls, levent>>

convVars == <<threads, session, conv, cpolls, cevent>>

raceVars == <<cmd, running>>

clientVars == <<req, http>>

notSched == <<pubVars, leadVars, convVars, raceVars, clientVars>>
notPub == <<schedVars, leadVars, convVars, raceVars, clientVars>>
notLead == <<schedVars, pubVars, convVars, raceVars, clientVars>>
notConv == <<schedVars, pubVars, raceVars, clientVars>>
notRace == <<pubVars, leadVars, convVars, clientVars>>
notClient == <<schedVars, pubVars, leadVars, convVars, raceVars>>

vars == <<schedVars, pubVars, leadVars, convVars, raceVars, clientVars>>

\* ------------------------------------------------------------------------
\* Scheduler: models and helpers
\* ------------------------------------------------------------------------

\* can_retry without the retry_count bound
can_retry_unbounded(post) == post.status = "failed"

\* ScheduledPost.can_retry
can_retry(post) ==
    post.retry_count < post.max_retries /\ post.status = "failed"

\* InstagramAccount.is_token_expired
is_token_expired(acc, t) ==
    IF acc.token_expires_at = NoTime THEN FALSE ELSE t >= acc.token_expires_at

\* ScheduleRepository.create_scheduled_post
create_scheduled_post(c, t) ==
    [content_id |-> c, status |-> "pending",
     published_at |-> NoTime, retry_count |-> 0,
     max_retries |-> DefaultMaxRetries, error_message |-> "",
     job_id |-> FALSE]

\* ScheduleRepository.reschedule
repo_reschedule(post, t) ==
    [post EXCEPT !.status = "pending"]

\* the job scheduled_post_<p> with a date trigger at t
Job(p, t) == [id |-> p, run_time |-> t]

\* the jobs of the store that carry the id scheduled_post_<p>
JobsOf(js, p) == {j \in js : j.id = p}

\* add_job without replace_existing: the job is added next to the others
schedule_post_noReplace(js, p, t) == js \cup {Job(p, t)}

\* SchedulerService.schedule_post: add_job(id=scheduled_post_<p>,
\* replace_existing=True)
schedule_post(js, p, t) == (js \ JobsOf(js, p)) \cup {Job(p, t)}

\* SchedulerService.cancel_scheduled_post: remove_job, False if not found
cancel_scheduled_post(js, p) == js \ JobsOf(js, p)

\* SchedulerService.reschedule_post: reschedule_job, False if not found
reschedule_post(js, p, t) ==
    IF JobsOf(js, p) = {} THEN js
    ELSE (js \ JobsOf(js, p)) \cup {Job(p, t)}

\* datetime.replace(minute=m): the same hour with the minute field set
ReplaceMinute(t, m) == (t - (t % 60)) + m

\* the guard taken as "already published" only
AlreadyProcessed_publishedOnly(post) == post.status = "published"

\* the guard of the execution callback (scheduler_service.py:165)
AlreadyProcessed(post) == post.status # "pending"

\* a publish call answering without a media id
MediaIdOf_null(c, n) == NoMedia

\* the media id the remote publish call returns for the n-th media object
\* created from content c
MediaIdOf(c, n) == c * 10 + n

Existing == 1..Len(posts)

SchedInit ==
    /\ now \in StartTimes
    /\ account \in [is_active : {TRUE}, token_expires_at : TokenExpiries]
    /\ contents \in [ContentIds -> [status : {"draft"},
                                    instagram_media_id : {NoMedia},
                                    media_url : MediaUrls]]
    /\ posts = <<>>
    /\ jobs = {}
    /\ pc = [p \in PostIds |-> "idle"]
    /\ remotePublished = [c \in ContentIds |-> 0]
    /\ cli = [content |-> 0, count |-> 0]
    /\ last = [op |-> "init", id |-> 0]
    /\ cmd = [op |-> "none", id |-> 0]
    /\ running = TRUE

\* ------------------------------------------------------------------------
\* Scheduler: environment
\* ------------------------------------------------------------------------

\* time passes
Tick ==
    /\ now + 5 <= MaxNow
    /\ now' = now + 5
    /\ UNCHANGED <<account, contents, posts, jobs, pc, remotePublished, cli,
                   last>>
    /\ UNCHANGED notSched

\* polaris accounts deactivate
deactivate_account ==
    /\ account.is_active
    /\ account' = [account EXCEPT !.is_active = FALSE]
    /\ UNCHANGED <<now, contents, posts, jobs, pc, remotePublished, cli,
                   last>>
    /\ UNCHANGED notSched

\* polaris accounts activate
activate_account ==
    /\ ~account.is_active
    /\ account' = [account EXCEPT !.is_active = TRUE]
    /\ UNCHANGED <<now, contents, posts, jobs, pc, remotePublished, cli,
                   last>>
    /\ UNCHANGED notSched

\* ------------------------------------------------------------------------
\* Scheduler: the job and its execution callback
\* ------------------------------------------------------------------------

\* the executor's misfire test under misfire_grace_time (line 46)
WithinGrace(run_time, t) == t - run_time <= MisfireGraceMinutes

\* The job store hands a due date-trigger job to the executor and drops it
\* (at most one running instance per job id).
JobDispatch(p) ==
    /\ running
    /\ p \in Existing
    /\ pc[p] = "idle"
    /\ \E j \in JobsOf(jobs, p) :
          /\ j.run_time <= now
          /\ WithinGrace(j.run_time, now)
          /\ jobs' = jobs \ {j}
    /\ pc' = [pc EXCEPT ![p] = "dispatched"]
    /\ last' = [op |-> "dispatch", id |-> p]
    /\ UNCHANGED <<now, account, contents, posts, remotePublished, cli>>
    /\ UNCHANGED notSched

\* A due job whose run time was missed by more than the grace time is not
\* run; a date trigger has no later run time, so the job leaves the store.
\* The service listens for EVENT_JOB_EXECUTED and EVENT_JOB_ERROR only
\* (lines 51-58): nothing is told of the missed run.
JobMissed(p) ==
    /\ running
    /\ p \in Existing
    /\ pc[p] = "idle"
    /\ \E j \in JobsOf(jobs, p) :
          /\ j.run_time <= now
          /\ ~WithinGrace(j.run_time, now)
          /\ jobs' = jobs \ {j}
    /\ last' = [op |-> "missed", id |-> p]
    /\ UNCHANGED <<now, account, contents, posts, pc, remotePublished, cli>>
    /\ UNCHANGED notSched

\* SchedulerService.stop: shutdown(wait=True) lets running jobs finish
scheduler_stop ==
    /\ running
    /\ \A p \in PostIds : pc[p] = "idle"
    /\ running' = FALSE
    /\ UNCHANGED <<schedVars, cmd>>
    /\ UNCHANGED notRace

\* the process stays down for d minutes
outage(d) ==
    /\ ~running
    /\ now <= MaxNow
    /\ now' = now + d
    /\ UNCHANGED <<account, contents, posts, jobs, pc, remotePublished, cli,
                   last>>
    /\ UNCHANGED notSched

\* SchedulerService.start (polaris run)
scheduler_start ==
    /\ ~running
    /\ running' = TRUE
    /\ UNCHANGED <<schedVars, cmd>>
    /\ UNCHANGED notRace

\* the rows after the commit of line 171
MarkedProcessing(p) == [posts EXCEPT ![p].status = "processing"]

\* _publish_scheduled_post, the except branch (lines 202-223) for post p;
\* committed are the rows as the rollback of line 203 leaves them
ExceptHandler(p, msg, committed) ==
    LET failed == [committed[p] EXCEPT !.status = "failed",
                                       !.error_message = msg,
                                       !.retry_count = @ + 1]
        minute == (now % 60) + RetryBackoffMinutes * failed.retry_count
    IN  IF can_retry(failed)
        THEN IF minute > 59
             THEN \* replace(minute=...) raises ValueError before the commit:
                  \* the session is closed with the handler's changes unsaved
                  /\ posts' = committed
                  /\ UNCHANGED jobs
             ELSE /\ posts' = [committed EXCEPT
                                 ![p] = [failed EXCEPT !.status = "pending"]]
                  /\ jobs' = schedule_post(jobs, p, ReplaceMinute(now, minute))
        ELSE /\ posts' = [committed EXCEPT ![p] = failed]
             /\ UNCHANGED jobs

\* _publish_scheduled_post, lines 169-188: commit PROCESSING, check the
\* account, hand over to the publisher
CallbackProceed(p) ==
    IF ~account.is_active
    THEN /\ ExceptHandler(p, "Account is not active", MarkedProcessing(p))
         /\ pc' = [pc EXCEPT ![p] = "idle"]
         /\ last' = [op |-> "raised", id |-> p]
    ELSE IF is_token_expired(account, now)
    THEN /\ ExceptHandler(p, "Account token is expired", MarkedProcessing(p))
         /\ pc' = [pc EXCEPT ![p] = "idle"]
         /\ last' = [op |-> "raised", id |-> p]
    ELSE /\ posts' = MarkedProcessing(p)
         /\ pc' = [pc EXCEPT ![p] = "publishing"]
         /\ last' = [op |-> "publishing", id |-> p]
         /\ UNCHANGED jobs

\* _publish_scheduled_post, lines 157-188: load, guard, then the above
CallbackEntry(p) ==
    /\ pc[p] = "dispatched"
    /\ IF AlreadyProcessed(posts[p])
       THEN /\ pc' = [pc EXCEPT ![p] = "idle"]
            /\ last' = [op |-> "noop", id |-> p]
            /\ UNCHANGED <<posts, jobs>>
       ELSE CallbackProceed(p)
    /\ UNCHANGED <<now, account, contents, remotePublished, cli>>
    /\ UNCHANGED notSched

\* publish_content returned a media id: lines 191-200
PublishReturns(p) ==
    /\ pc[p] = "publishing"
    /\ contents[posts[p].content_id].media_url # ""
    /\ LET c == posts[p].content_id
           media_id == MediaIdOf(c, remotePublished[c] + 1)
       IN  /\ remotePublished' = [remotePublished EXCEPT ![c] = @ + 1]
           /\ contents' = [contents EXCEPT
                             ![c].status = "published",
                             ![c].instagram_media_id = media_id]
           /\ posts' = [posts EXCEPT ![p].status = "published",
                                     ![p].published_at = now]
    /\ pc' = [pc EXCEPT ![p] = "idle"]
    /\ last' = [op |-> "published", id |-> p]
    /\ UNCHANGED <<now, account, jobs, cli>>
    /\ UNCHANGED notSched

\* publish_content raised: lines 202-226
PublishRaises(p) ==
    /\ pc[p] = "publishing"
    /\ ExceptHandler(p, "publish failed", posts)
    /\ pc' = [pc EXCEPT ![p] = "idle"]
    /\ last' = [op |-> "raised", id |-> p]
    /\ UNCHANGED <<now, account, contents, remotePublished, cli>>
    /\ UNCHANGED notSched

\* ------------------------------------------------------------------------
\* Scheduler: the schedule CLI commands
\* ------------------------------------------------------------------------

\* polaris schedule create
create_schedule(c, t) ==
    /\ Len(posts) < MaxPosts
    /\ account.is_active
    /\ t > now
    /\ LET p == Len(posts) + 1
       IN  /\ posts' = Append(posts,
                          [create_scheduled_post(c, t) EXCEPT !.job_id = TRUE])
           /\ jobs' = schedule_post(jobs, p, t)
           /\ last' = [op |-> "create", id |-> p]
    /\ UNCHANGED <<now, account, contents, pc, remotePublished, cli>>
    /\ UNCHANGED notSched

\* polaris schedule cancel
cancel_schedule(p) ==
    /\ p \in Existing
    /\ posts[p].status = "pending"
    /\ jobs' = IF posts[p].job_id THEN cancel_scheduled_post(jobs, p) ELSE jobs
    /\ posts' = [posts EXCEPT ![p].status = "cancelled"]
    /\ last' = [op |-> "cancel", id |-> p]
    /\ UNCHANGED <<now, account, contents, pc, remotePublished, cli>>
    /\ UNCHANGED notSched

\* polaris schedule reschedule
reschedule(p, t) ==
    /\ p \in Existing
    /\ posts[p].status \in {"pending", "failed"}
    /\ t > now
    /\ jobs' = IF posts[p].job_id THEN reschedule_post(jobs, p, t)
                                  ELSE schedule_post(jobs, p, t)
    /\ posts' = [posts EXCEPT
                   ![p] = [repo_reschedule(@, t) EXCEPT !.job_id = TRUE]]
    /\ last' = [op |-> "reschedule", id |-> p]
    /\ UNCHANGED <<now, account, contents, pc, remotePublished, cli>>
    /\ UNCHANGED notSched

\* polaris schedule retry (without --time: now + 5 minutes)
retry_schedule(p) ==
    /\ p \in Existing
    /\ posts[p].status = "failed"
    /\ IF ~can_retry(posts[p])
       THEN \* "Maximum retries reached": exit 1
            /\ last' = [op |-> "retry_refused", id |-> p]
            /\ UNCHANGED <<posts, jobs>>
       ELSE LET retry_time == now + CliRetryDelayMinutes
            IN  /\ jobs' = schedule_post(jobs, p, retry_time)
                /\ posts' = [posts EXCEPT
                               ![p] = [repo_reschedule(@, retry_time)
                                         EXCEPT !.job_id = TRUE]]
                /\ last' = [op |-> "retry", id |-> p]
    /\ UNCHANGED <<now, account, contents, pc, remotePublished, cli>>
    /\ UNCHANGED notSched

\* ContentRepository.mark_ready
repo_mark_ready(content) == [content EXCEPT !.status = "ready"]

\* polaris content ready: without a media URL the operator is asked to
\* confirm; declining changes nothing
mark_ready(c, confirmed) ==
    /\ contents[c].media_url # "" \/ confirmed
    /\ contents' = [contents EXCEPT ![c] = repo_mark_ready(@)]
    /\ last' = [op |-> "mark_ready", id |-> c]
    /\ UNCHANGED <<now, account, posts, jobs, pc, remotePublished, cli>>
    /\ UNCHANGED notSched

\* ------------------------------------------------------------------------
\* Scheduler: the service's job methods called on their own
\* ------------------------------------------------------------------------

\* SchedulerService.schedule_post(p, t), from any caller
call_schedule_post(p, t) ==
    /\ p \in Existing
    /\ t > now
    /\ jobs' = schedule_post(jobs, p, t)
    /\ last' = [op |-> IF JobsOf(jobs, p) = {} THEN "schedule_post"
                       ELSE "schedule_post_replaced",
                id |-> p]
    /\ UNCHANGED <<now, account, contents, posts, pc, remotePublished, cli>>
    /\ UNCHANGED notSched

\* SchedulerService.reschedule_post(scheduled_post_<p>, t), from any caller
call_reschedule_post(p, t) ==
    /\ p \in Existing
    /\ t > now
    /\ jobs' = reschedule_post(jobs, p, t)
    /\ last' = [op |-> "reschedule_post", id |-> p]
    /\ UNCHANGED <<now, account, contents, posts, pc, remotePublished, cli>>
    /\ UNCHANGED notSched

\* SchedulerService.cancel_scheduled_post(scheduled_post_<p>), from any
\* caller
call_cancel_scheduled_post(p) ==
    /\ p \in Existing
    /\ jobs' = cancel_scheduled_post(jobs, p)
    /\ last' = [op |-> "cancel_scheduled_post", id |-> p]
    /\ UNCHANGED <<now, account, contents, posts, pc, remotePublished, cli>>
    /\ UNCHANGED notSched

\* ------------------------------------------------------------------------
\* Scheduler: reads and writes of the callback and of cancel, one by one
\* ------------------------------------------------------------------------
\* The service and the CLI are separate processes on one database.  The
\* callback reads the row (line 160), tests it (165) and writes PROCESSING
\* (170-171); cancel reads the row (209), tests it (215) and writes
\* CANCELLED (230-231).  Neither write is conditional on the stored status
\* and no row is locked, so the other process may commit in between.

\* _publish_scheduled_post, lines 157-167: load the row and test its status
CallbackLoad(p) ==
    /\ pc[p] = "dispatched"
    /\ IF AlreadyProcessed(posts[p])
       THEN /\ pc' = [pc EXCEPT ![p] = "idle"]
            /\ last' = [op |-> "noop", id |-> p]
       ELSE /\ pc' = [pc EXCEPT ![p] = "loaded"]
            /\ last' = [op |-> "loaded", id |-> p]
    /\ UNCHANGED <<now, account, contents, posts, jobs, remotePublished, cli>>
    /\ UNCHANGED notSched

\* _publish_scheduled_post, lines 169-188, for a callback that found its
\* post PENDING
CallbackCommit(p) ==
    /\ pc[p] = "loaded"
    /\ CallbackProceed(p)
    /\ UNCHANGED <<now, account, contents, remotePublished, cli>>
    /\ UNCHANGED notSched

\* polaris schedule cancel, lines 206-218: load the row and test its status
cancel_schedule_read(p) ==
    /\ cmd.op = "none"
    /\ p \in Existing
    /\ posts[p].status = "pending"
    /\ cmd' = [op |-> "cancel", id |-> p]
    /\ UNCHANGED <<schedVars, running>>
    /\ UNCHANGED notRace

\* polaris schedule cancel, lines 220-231: remove the job, write CANCELLED
cancel_schedule_write ==
    /\ cmd.op = "cancel"
    /\ LET p == cmd.id
       IN  /\ jobs' = IF posts[p].job_id THEN cancel_scheduled_post(jobs, p)
                                         ELSE jobs
           /\ posts' = [posts EXCEPT ![p].status = "cancelled"]
           /\ last' = [op |-> "cancel", id |-> p]
    /\ cmd' = [op |-> "none", id |-> 0]
    /\ UNCHANGED <<now, account, contents, pc, remotePublished, cli, running>>
    /\ UNCHANGED notRace

\* ------------------------------------------------------------------------
\* Scheduler: the immediate publish command (polaris publish)
\* ------------------------------------------------------------------------

\* main.py publish, lines 141-178: look up, then call the publisher
publish_start(c, withAccountOption) ==
    /\ cli.content = 0
    /\ cli.count < MaxCliPublish
    /\ contents[c].media_url # ""
    /\ withAccountOption \/ account.is_active
    /\ cli' = [content |-> c, count |-> cli.count + 1]
    /\ last' = [op |-> "cli_publish", id |-> c]
    /\ UNCHANGED <<now, account, contents, posts, jobs, pc, remotePublished>>
    /\ UNCHANGED notSched

\* lines 180-185
publish_returns ==
    /\ cli.content # 0
    /\ LET c == cli.content
           media_id == MediaIdOf(c, remotePublished[c] + 1)
       IN  /\ remotePublished' = [remotePublished EXCEPT ![c] = @ + 1]
           /\ contents' = [contents EXCEPT
                             ![c].status = "published",
                             ![c].instagram_media_id = media_id]
           /\ last' = [op |-> "cli_published", id |-> c]
    /\ cli' = [cli EXCEPT !.content = 0]
    /\ UNCHANGED <<now, account, posts, jobs, pc>>
    /\ UNCHANGED notSched

\* lines 187-191: PublishError
publish_raises_PublishError ==
    /\ cli.content # 0
    /\ contents' = [contents EXCEPT ![cli.content].status = "failed"]
    /\ last' = [op |-> "cli_publish_error", id |-> cli.content]
    /\ cli' = [cli EXCEPT !.content = 0]
    /\ UNCHANGED <<now, account, posts, jobs, pc, remotePublished>>
    /\ UNCHANGED notSched

\* lines 192-194: any other exception
publish_raises_other ==
    /\ cli.content # 0
    /\ last' = [op |-> "cli_error", id |-> cli.content]
    /\ cli' = [cli EXCEPT !.content = 0]
    /\ UNCHANGED <<now, account, contents, posts, jobs, pc, remotePublished>>
    /\ UNCHANGED notSched

\* ------------------------------------------------------------------------
\* Publisher: one invocation of publish_content / publish_story(_video)
\* ------------------------------------------------------------------------

CONTAINER_CHECK_INTERVAL == 5
CONTAINER_MAX_WAIT == 300
VIDEO_MAX_WAIT == 600
RetryAttempts == 3

\* publish_carousel's documented number of images (line 98)
CarouselMinItems == 2
CarouselMaxItems == 10

ContentType == {"image", "video", "carousel", "reel"}

\* media_type values of the Content objects handed to publish_content: the
\* members of ContentType, None ("") and a value outside the enumeration
MediaTypes == ContentType \cup {"", "album"}

\* media locators handed to the publisher, as character sequences
MediaLocators ==
    { <<>>,
      <<"a">>,
      <<"a", "|", "b">>,
      <<"a", "|", " ", "b", " ", "|", "c">>,
      <<"|">> }

\* what check_container_status may answer: status_code and status text
\* ("" stands for a response without a status field)
StatusResponses ==
    { [status_code |-> "FINISHED", status |-> ""],
      [status_code |-> "IN_PROGRESS", status |-> ""],
      [status_code |-> "EXPIRED", status |-> ""],
      [status_code |-> "PAUSED", status |-> ""],
      [status_code |-> "ERROR", status |-> "Media upload failed"],
      [status_code |-> "ERROR", status |-> ""] }

NoResult == [kind |-> "none", text |-> "", id |-> 0]

\* no Content object was passed (publish_story* are called with a URL)
NoContent == [media_url |-> <<>>, media_type |-> "none"]

\* publish_content, line 164: `not content.media_url` taken as never true
HasMediaUrl_always(media_url) == TRUE

\* publish_content, line 164: the negation of `not content.media_url`
HasMediaUrl(media_url) == media_url # <<>>

\* str.split(sep)
RECURSIVE split(_, _)
split(s, sep) ==
    IF \A i \in 1..Len(s) : s[i] # sep
    THEN <<s>>
    ELSE LET i == CHOOSE k \in 1..Len(s) :
                    s[k] = sep /\ \A j \in 1..(k - 1) : s[j] # sep
         IN  <<SubSeq(s, 1, i - 1)>> \o split(SubSeq(s, i + 1, Len(s)), sep)

\* str.strip()
RECURSIVE strip(_)
strip(s) ==
    IF s = <<>> THEN s
    ELSE IF Head(s) = " " THEN strip(Tail(s))
    ELSE IF s[Len(s)] = " " THEN strip(SubSeq(s, 1, Len(s) - 1))
    ELSE s

\* publish_content, line 174: [u.strip() for u in media_url.split("|")
\* if u.strip()]
image_urls(media_url) ==
    LET pieces == split(media_url, "|")
        stripped == [i \in 1..Len(pieces) |-> strip(pieces[i])]
        NonEmpty(u) == u # <<>>
    IN  SelectSeq(stripped, NonEmpty)

\* the publish_* methods wrapped in @retry(stop_after_attempt(3))
HasRetryDecorator(op) == op \in {"image", "video", "story", "story_video"}

\* the max_wait each publish_* method passes to _wait_for_container
MaxWaitOf(op) ==
    IF op \in {"video", "story_video"} THEN VIDEO_MAX_WAIT
    ELSE CONTAINER_MAX_WAIT

\* the client method each single-container publish_* method creates with
CreateCallOf(op) ==
    CASE op = "image" -> "create_media_container"
      [] op = "video" -> "create_video_container"
      [] op = "story" -> "create_story_container"
      [] op = "story_video" -> "create_story_video_container"

\* the media_type parameter of the create call
TagOf(op) ==
    CASE op = "video" -> "REELS"
      [] op \in {"story", "story_video"} -> "STORIES"
      [] OTHER -> ""

\* _wait_for_container, line 196 with the loop guard including max_wait
LoopContinues_inclusive(elapsed, max_wait) == elapsed <= max_wait

\* _wait_for_container, line 196: while elapsed < max_wait
LoopContinues(elapsed, max_wait) == elapsed < max_wait

\* the status branches with EXPIRED taken as a failure
Classify_expiredRaises(status_code) ==
    IF status_code = "FINISHED" THEN "return"
    ELSE IF status_code \in {"ERROR", "EXPIRED"} THEN "raise"
    ELSE "sleep"

\* the status branches with ERROR taken as still processing
Classify_errorIgnored(status_code) ==
    IF status_code = "FINISHED" THEN "return" ELSE "sleep"

\* the status branches with IN_PROGRESS taken as ready
Classify_inProgressReturns(status_code) ==
    IF status_code \in {"FINISHED", "IN_PROGRESS"} THEN "return"
    ELSE IF status_code = "ERROR" THEN "raise"
    ELSE "sleep"

\* _wait_for_container, lines 200-211: the branch taken on a status code
Classify(status_code) ==
    IF status_code = "FINISHED" THEN "return"
    ELSE IF status_code = "ERROR" THEN "raise"
    ELSE IF status_code \in {"EXPIRED", "IN_PROGRESS"} THEN "sleep"
    ELSE "sleep"

\* line 203-204: status.get("status", "Unknown error")
ContainerFailed(response) ==
    [kind |-> "PublishError:container_failed",
     text |-> IF response.status = "" THEN "Unknown error"
              ELSE response.status,
     id |-> 0]

\* line 213
TimedOut(max_wait) ==
    [kind |-> "PublishError:timed_out", text |-> "", id |-> max_wait]

ClientError == [kind |-> "InstagramClientError", text |-> "", id |-> 0]

\* the media id publish_media returns for a container
PublishedIdOf(container) == 100 + container

Call(name, url, ids, tag) ==
    [call |-> name, url |-> url, ids |-> ids, tag |-> tag]

PubIdle ==
    [op |-> "none", pc |-> "idle", attempt |-> 0, urls |-> <<>>,
     items |-> <<>>, idx |-> 0, container |-> 0, elapsed |-> 0,
     max_wait |-> 0, seen |-> {}, lastStatus |-> "", lastText |-> "",
     wait |-> NoResult,
     result |-> NoResult, nextId |-> 1, content |-> NoContent,
     checks |-> 0]

PubInit ==
    /\ pub = PubIdle
    /\ calls = <<>>

\* a call of _wait_for_container(id, max_wait) begins
EnterWait(st, id, max_wait) ==
    [st EXCEPT !.container = id, !.elapsed = 0, !.max_wait = max_wait,
               !.seen = {}, !.lastStatus = "", !.lastText = "",
               !.wait = NoResult, !.checks = 0]

\* an exception leaves the running publish_* method: tenacity calls the
\* decorated method again until the third attempt, then re-raises
AfterRaise(st, err) ==
    IF HasRetryDecorator(st.op) /\ st.attempt < RetryAttempts
    THEN [st EXCEPT !.attempt = @ + 1, !.pc = "create", !.container = 0,
                    !.elapsed = 0, !.max_wait = 0, !.seen = {},
                    !.lastStatus = "", !.lastText = "", !.wait = NoResult,
                    !.checks = 0]
    ELSE [st EXCEPT !.pc = "done", !.result = err]

\* publish_carousel, lines 105-109: every item is created before the
\* first wait
AfterItemCreated(st) ==
    IF Len(st.items) < Len(st.urls)
    THEN st
    ELSE [EnterWait(st, st.items[1], CONTAINER_MAX_WAIT)
            EXCEPT !.pc = "wait_items", !.idx = 1]

\* the caller going on after the first wait that returns
AfterWaitReturned_firstItemOnly(st) ==
    IF st.pc = "wait"
    THEN [st EXCEPT !.pc = "publish"]
    ELSE [st EXCEPT !.pc = "create_carousel"]

\* _wait_for_container returned normally: what the caller does next
\* (publish_image:56, publish_video:91, publish_story:134,
\* publish_story_video:153, publish_carousel:108-115)
AfterWaitReturned(st) ==
    IF st.pc = "wait"
    THEN [st EXCEPT !.pc = "publish"]
    ELSE IF st.idx < Len(st.items)
    THEN [EnterWait(st, st.items[st.idx + 1], CONTAINER_MAX_WAIT)
            EXCEPT !.idx = st.idx + 1]
    ELSE [st EXCEPT !.pc = "create_carousel"]

\* publish_content, lines 164-179
publish_content(media_url, media_type) ==
    /\ pub.pc = "idle"
    /\ LET st == [pub EXCEPT !.content = [media_url |-> media_url,
                                          media_type |-> media_type]]
       IN  IF ~HasMediaUrl(media_url)
           THEN pub' = [st EXCEPT
                          !.op = "content", !.pc = "done",
                          !.result = [kind |-> "PublishError:no_media_url",
                                      text |-> "", id |-> 0]]
           ELSE IF media_type = "image"
           THEN pub' = [st EXCEPT !.op = "image", !.pc = "create",
                                  !.attempt = 1, !.urls = <<media_url>>]
           ELSE IF media_type \in {"video", "reel"}
           THEN pub' = [st EXCEPT !.op = "video", !.pc = "create",
                                  !.attempt = 1, !.urls = <<media_url>>]
           ELSE IF media_type = "carousel"
           THEN IF image_urls(media_url) = <<>>
                THEN pub' = [st EXCEPT
                               !.op = "content", !.pc = "done",
                               !.result =
                                   [kind |-> "PublishError:no_image_urls",
                                    text |-> "", id |-> 0]]
                ELSE pub' = [st EXCEPT !.op = "carousel",
                                       !.pc = "create_items",
                                       !.attempt = 1,
                                       !.urls = image_urls(media_url)]
           ELSE pub' = [st EXCEPT
                          !.op = "content", !.pc = "done",
                          !.result = [kind |-> "PublishError:unsupported",
                                      text |-> "", id |-> 0]]
    /\ UNCHANGED calls
    /\ UNCHANGED notPub

\* publish_story, called directly
publish_story(image_url) ==
    /\ pub.pc = "idle"
    /\ pub' = [pub EXCEPT !.op = "story", !.pc = "create", !.attempt = 1,
                          !.urls = <<image_url>>]
    /\ UNCHANGED calls
    /\ UNCHANGED notPub

\* publish_story_video, called directly
publish_story_video(video_url) ==
    /\ pub.pc = "idle"
    /\ pub' = [pub EXCEPT !.op = "story_video", !.pc = "create",
                          !.attempt = 1, !.urls = <<video_url>>]
    /\ UNCHANGED calls
    /\ UNCHANGED notPub

\* the create call of publish_image / publish_video / publish_story /
\* publish_story_video, then the call of _wait_for_container
create_container(ok) ==
    /\ pub.pc = "create"
    /\ IF ok
       THEN /\ calls' = calls
                \o <<Call(CreateCallOf(pub.op), pub.urls[1], <<pub.nextId>>,
                          TagOf(pub.op)),
                     Call("_wait_for_container", <<>>, <<pub.nextId>>, "")>>
            /\ pub' = [EnterWait(pub, pub.nextId, MaxWaitOf(pub.op))
                         EXCEPT !.pc = "wait", !.nextId = @ + 1]
       ELSE /\ calls' = Append(calls, Call(CreateCallOf(pub.op), pub.urls[1],
                                           <<>>, TagOf(pub.op)))
            /\ pub' = AfterRaise(pub, ClientError)
    /\ UNCHANGED notPub

\* publish_carousel, line 105: one create_carousel_item_container call
create_carousel_item(ok) ==
    /\ pub.pc = "create_items"
    /\ LET url == pub.urls[Len(pub.items) + 1]
       IN  IF ok
           THEN LET st == AfterItemCreated(
                            [pub EXCEPT !.items = Append(@, pub.nextId),
                                        !.nextId = @ + 1])
                IN  /\ pub' = st
                    /\ calls' =
                         IF st.pc = "wait_items"
                         THEN calls
                              \o <<Call("create_carousel_item_container", url,
                                        <<pub.nextId>>, "")>>
                              \o <<Call("_wait_for_container", <<>>,
                                        <<st.container>>, "")>>
                         ELSE Append(calls,
                                Call("create_carousel_item_container", url,
                                     <<pub.nextId>>, ""))
           ELSE /\ calls' = Append(calls,
                              Call("create_carousel_item_container", url,
                                   <<>>, ""))
                /\ pub' = AfterRaise(pub, ClientError)
    /\ UNCHANGED notPub

\* publish_carousel, lines 112-113
create_carousel_container(ok) ==
    /\ pub.pc = "create_carousel"
    /\ IF ok
       THEN /\ calls' = calls
                \o <<Call("create_carousel_container", <<>>, pub.items, ""),
                     Call("_wait_for_container", <<>>, <<pub.nextId>>, "")>>
            /\ pub' = [EnterWait(pub, pub.nextId, CONTAINER_MAX_WAIT)
                         EXCEPT !.pc = "wait", !.nextId = @ + 1]
       ELSE /\ calls' = Append(calls, Call("create_carousel_container", <<>>,
                                           pub.items, ""))
            /\ pub' = AfterRaise(pub, ClientError)
    /\ UNCHANGED notPub

\* _wait_for_container, lines 196-211: one pass of the loop body
check_container_status(response) ==
    /\ pub.pc \in {"wait", "wait_items"}
    /\ LoopContinues(pub.elapsed, pub.max_wait)
    /\ LET polled == [pub EXCEPT !.seen = @ \cup {response.status_code},
                                 !.lastStatus = response.status_code,
                                 !.lastText = response.status,
                                 !.checks = @ + 1]
       IN  IF Classify(response.status_code) = "return"
           THEN LET st == AfterWaitReturned(
                            [polled EXCEPT !.wait = [kind |-> "returned",
                                                     text |-> "", id |-> 0]])
                IN  /\ pub' = st
                    /\ calls' = IF st.container # pub.container
                                THEN Append(calls,
                                       Call("_wait_for_container", <<>>,
                                            <<st.container>>, ""))
                                ELSE calls
           ELSE IF Classify(response.status_code) = "raise"
           THEN /\ pub' = AfterRaise(
                            [polled EXCEPT !.wait = ContainerFailed(response)],
                            ContainerFailed(response))
                /\ UNCHANGED calls
           ELSE /\ pub' = [polled EXCEPT
                             !.elapsed = @ + CONTAINER_CHECK_INTERVAL]
                /\ UNCHANGED calls
    /\ UNCHANGED notPub

\* check_container_status itself raised (the client gave up)
check_container_status_raises ==
    /\ pub.pc \in {"wait", "wait_items"}
    /\ LoopContinues(pub.elapsed, pub.max_wait)
    /\ pub' = AfterRaise([pub EXCEPT !.wait = ClientError], ClientError)
    /\ UNCHANGED calls
    /\ UNCHANGED notPub

\* _wait_for_container, line 213: the loop ended without FINISHED or ERROR
wait_timed_out ==
    /\ pub.pc \in {"wait", "wait_items"}
    /\ ~LoopContinues(pub.elapsed, pub.max_wait)
    /\ pub' = AfterRaise([pub EXCEPT !.wait = TimedOut(pub.max_wait)],
                         TimedOut(pub.max_wait))
    /\ UNCHANGED calls
    /\ UNCHANGED notPub

\* the publish_media call that ends every publish_* method
publish_media(ok) ==
    /\ pub.pc = "publish"
    /\ calls' = Append(calls,
                  Call("publish_media", <<>>, <<pub.container>>, ""))
    /\ IF ok
       THEN pub' = [pub EXCEPT !.pc = "done",
                               !.result = [kind |-> "ok", text |-> "",
                                           id |-> PublishedIdOf(pub.container)]]
       ELSE pub' = AfterRaise(pub, ClientError)
    /\ UNCHANGED notPub

NextPub ==
    \/ \E u \in MediaLocators, t \in MediaTypes : publish_content(u, t)
    \/ publish_story(<<"a">>)
    \/ publish_story_video(<<"a">>)
    \/ \E ok \in BOOLEAN : create_container(ok)
    \/ \E ok \in BOOLEAN : create_carousel_item(ok)
    \/ \E ok \in BOOLEAN : create_carousel_container(ok)
    \/ \E r \in StatusResponses : check_container_status(r)
    \/ check_container_status_raises
    \/ wait_timed_out
    \/ \E ok \in BOOLEAN : publish_media(ok)

\* a response without a status_code field: status.get("status_code") is
\* None
NoStatusCode == [status_code |-> "", status |-> ""]

\* the single-container publish methods polling a container that may also
\* answer without a status code
NextPoll ==
    \/ \E t \in {"image", "video"} : publish_content(<<"a">>, t)
    \/ publish_story(<<"a">>)
    \/ publish_story_video(<<"a">>)
    \/ \E ok \in BOOLEAN : create_container(ok)
    \/ \E r \in StatusResponses \cup {NoStatusCode} :
          check_container_status(r)
    \/ check_container_status_raises
    \/ wait_timed_out
    \/ \E ok \in BOOLEAN : publish_media(ok)

\* ------------------------------------------------------------------------
\* Platform client: one client method call, request by request
\* ------------------------------------------------------------------------

\* _make_request's @retry(stop=stop_after_attempt(3))
ClientRetryAttempts == 3

\* HTTP status codes the remote API may answer with
StatusCodes == {200, 401, 429, 500}

\* who calls the client method: a caller without retry of its own, or a
\* publish_* method wrapped in @retry (its create call)
Callers == {"direct", "publish_image"}

\* _make_request, lines 82-106: the exception raised for a status code
ErrorOf(code) ==
    IF code = 429 THEN "RateLimitError"
    ELSE IF code = 401 THEN "AuthenticationError"
    ELSE IF code >= 400 THEN "InstagramClientError"
    ELSE "none"

\* tenacity's default retry condition: any exception
Retries(err) == TRUE

ClientIdle ==
    [pc |-> "idle", via |-> "none", attempt |-> 0, outer |-> 0,
     result |-> "none"]

ClientInit ==
    /\ req = ClientIdle
    /\ http = <<>>

\* a client method is called and enters _make_request
call_client(via) ==
    /\ req.pc = "idle"
    /\ req' = [pc |-> "request", via |-> via, attempt |-> 1,
               outer |-> IF via = "direct" THEN 0 ELSE 1,
               result |-> "none"]
    /\ UNCHANGED http
    /\ UNCHANGED notClient

\* _make_request, line 80-108: one HTTP request and its answer; an
\* exception goes to the client's retry decorator and, once that gives up,
\* to the retry decorator of the calling publish_* method
http_request(code) ==
    /\ req.pc = "request"
    /\ http' = Append(http, code)
    /\ LET err == ErrorOf(code)
       IN  IF err = "none"
           THEN req' = [req EXCEPT !.pc = "done", !.result = "ok"]
           ELSE IF Retries(err) /\ req.attempt < ClientRetryAttempts
           THEN req' = [req EXCEPT !.attempt = @ + 1]
           ELSE IF /\ req.via # "direct"
                   /\ Retries(err)
                   /\ req.outer < RetryAttempts
           THEN req' = [req EXCEPT !.outer = @ + 1, !.attempt = 1]
           ELSE req' = [req EXCEPT !.pc = "done", !.result = err]
    /\ UNCHANGED notClient

NextClient ==
    \/ \E via \in Callers : call_client(via)
    \/ \E code \in StatusCodes : http_request(code)

\* ------------------------------------------------------------------------
\* Lead automation: poll_triggers
\* ------------------------------------------------------------------------

Runners == 1..NumRunners

\* keywords a trigger may be set up with, and comment texts, as character
\* sequences
Keywords == { <<"a", "U">> }
Texts == { <<"A", "u">>, <<"x", "a", "U", "x">>, <<"u", "a">> }
Users == { "u1" }

\* str.lower() on one character
LowerChar(ch) ==
    CASE ch = "A" -> "a"
      [] ch = "U" -> "u"
      [] ch = "X" -> "x"
      [] OTHER -> ch

\* str.lower()
lower(s) == [i \in 1..Len(s) |-> LowerChar(s[i])]

\* the substring test `a in b`
Contains(a, b) ==
    \E k \in 0..(Len(b) - Len(a)) : SubSeq(b, k + 1, k + Len(a)) = a

\* the keyword test taken without lowering the comment text
KeywordMatches_caseSensitive(keyword, comment_text) ==
    Contains(lower(keyword), comment_text)

\* _process_trigger, lines 64-68: keyword.lower() in comment_text.lower()
KeywordMatches(keyword, comment_text) ==
    Contains(lower(keyword), lower(comment_text))

\* LeadRepository.get_by_comment_id: the ids of the rows with that comment
get_by_comment_id(rows, comment_id) ==
    {i \in 1..Len(rows) : rows[i].comment_id = comment_id}

\* the leads table without its unique constraint
UniqueViolation_none(rows, comment_id) == FALSE

\* Lead.__table_args__: UniqueConstraint("comment_id")
UniqueViolation(rows, comment_id) ==
    \E i \in 1..Len(rows) : rows[i].comment_id = comment_id

\* CommentTriggerRepository.get_active_for_account, in id order
get_active_for_account(ts) ==
    LET Active(t) == ts[t].is_active
    IN  SelectSeq([t \in 1..Len(ts) |-> t], Active)

\* get_post_comments: the comments at or after `since` (all when since is
\* None), oldest first
get_post_comments(cs, since) ==
    LET Recent(c) == since = NoTime \/ cs[c].timestamp >= since
    IN  SelectSeq([c \in 1..Len(cs) |-> c], Recent)

\* the row as create_lead alone leaves it
NewLead_createOnly(t, c, sent_at) ==
    [trigger_id |-> t,
     comment_id |-> c,
     commenter_ig_user_id |-> comments[c].ig_user_id,
     comment_text |-> comments[c].text,
     dm_sent |-> FALSE,
     dm_sent_at |-> NoTime,
     conversation_history |-> <<>>,
     status |-> "NEW"]

\* create_lead, update_conversation and mark_dm_sent (lines 94-112)
NewLead(t, c, sent_at) ==
    [trigger_id |-> t,
     comment_id |-> c,
     commenter_ig_user_id |-> comments[c].ig_user_id,
     comment_text |-> comments[c].text,
     dm_sent |-> TRUE,
     dm_sent_at |-> sent_at,
     conversation_history |->
        <<[role |-> "assistant", message |-> triggers[t].initial_message,
           timestamp |-> sent_at]>>,
     status |-> "CONTACTED"]

\* update_last_polled writing a timestamp one tick early
update_last_polled_early(ts, t, timestamp) ==
    [ts EXCEPT ![t].last_polled_at = timestamp - 1]

\* CommentTriggerRepository.update_last_polled
update_last_polled(ts, t, timestamp) ==
    [ts EXCEPT ![t].last_polled_at = timestamp]

RunnerIdle ==
    [pc |-> "idle", todo |-> <<>>, batch |-> <<>>, i |-> 0,
     broken |-> FALSE, sendFailed |-> FALSE]

LeadInit ==
    /\ clock = 0
    /\ triggers = <<>>
    /\ comments = <<>>
    /\ leads = <<>>
    /\ replySent = [c \in 1..MaxComments |-> 0]
    /\ replyFailed = {}
    /\ runners = [r \in Runners |-> RunnerIdle]
    /\ polls = 0
    /\ levent = [op |-> "init", id |-> 0]

\* the run goes on to its next trigger, or ends
NextTrigger(run) ==
    [run EXCEPT !.todo = Tail(@), !.batch = <<>>, !.i = 0,
                !.pc = IF Len(run.todo) > 1 THEN "fetch" ELSE "idle"]

\* time passes
LeadTick ==
    /\ clock < MaxClock
    /\ clock' = clock + 1
    /\ UNCHANGED <<triggers, comments, leads, replySent, replyFailed, runners,
                   polls, levent>>
    /\ UNCHANGED notLead

\* polaris leads setup: a trigger on the watched post
setup(keyword, follow_up) ==
    /\ Len(triggers) < MaxTriggers
    /\ triggers' = Append(triggers,
                     [keyword |-> keyword, initial_message |-> "hello",
                      follow_up_enabled |-> follow_up, is_active |-> TRUE,
                      last_polled_at |-> NoTime])
    /\ UNCHANGED <<clock, comments, leads, replySent, replyFailed, runners,
                   polls, levent>>
    /\ UNCHANGED notLead

\* a user comments on the watched post
comment_posted(text, user) ==
    /\ Len(comments) < MaxComments
    /\ comments' = Append(comments,
                     [text |-> text, ig_user_id |-> user,
                      timestamp |-> clock])
    /\ UNCHANGED <<clock, triggers, leads, replySent, replyFailed, runners,
                   polls, levent>>
    /\ UNCHANGED notLead

\* poll_triggers, line 44: a run starts and loads the active triggers
poll_triggers(r) ==
    /\ runners[r].pc = "idle"
    /\ polls < MaxPolls
    /\ polls' = polls + 1
    /\ LET todo == get_active_for_account(triggers)
       IN  runners' = [runners EXCEPT
                         ![r] = [RunnerIdle EXCEPT
                                   !.todo = todo,
                                   !.pc = IF todo = <<>> THEN "idle"
                                          ELSE "fetch"]]
    /\ levent' = [op |-> "poll", id |-> r]
    /\ UNCHANGED <<clock, triggers, comments, leads, replySent, replyFailed>>
    /\ UNCHANGED notLead

\* _process_trigger, lines 57-64: fetch the comments since the cursor
\* (get_post_comments answers [] when the request fails)
fetch_comments(r, ok) ==
    /\ runners[r].pc = "fetch"
    /\ LET t == Head(runners[r].todo)
           batch == IF ok
                    THEN get_post_comments(comments, triggers[t].last_polled_at)
                    ELSE <<>>
       IN  runners' = [runners EXCEPT ![r].batch = batch, ![r].i = 1,
                                      ![r].pc = "comment"]
    /\ levent' = [op |-> IF ok THEN "fetched" ELSE "fetch_failed",
                  id |-> Head(runners[r].todo)]
    /\ UNCHANGED <<clock, triggers, comments, leads, replySent, replyFailed,
                   polls>>
    /\ UNCHANGED notLead

\* _process_trigger, lines 66-81: keyword test and deduplication for the
\* next comment of the batch
process_comment(r) ==
    /\ runners[r].pc = "comment"
    /\ runners[r].i <= Len(runners[r].batch)
    /\ LET run == runners[r]
           t == Head(run.todo)
           c == run.batch[run.i]
       IN  IF ~KeywordMatches(triggers[t].keyword, comments[c].text)
           THEN /\ runners' = [runners EXCEPT ![r].i = @ + 1]
                /\ levent' = [op |-> "no_keyword", id |-> c]
           ELSE IF run.broken
           THEN \* the session is unusable after a failed flush: the lookup
                \* raises and poll_triggers logs it
                /\ runners' = [runners EXCEPT ![r] = NextTrigger(run)]
                /\ levent' = [op |-> "trigger_error", id |-> t]
           ELSE IF get_by_comment_id(leads, c) # {}
           THEN /\ runners' = [runners EXCEPT ![r].i = @ + 1]
                /\ levent' = [op |-> "skip_existing", id |-> c]
           ELSE /\ runners' = [runners EXCEPT ![r].pc = "send"]
                /\ levent' = [op |-> "new_comment", id |-> c]
    /\ UNCHANGED <<clock, triggers, comments, leads, replySent, replyFailed,
                   polls>>
    /\ UNCHANGED notLead

\* _process_trigger, lines 84-119: send the private reply, then create and
\* commit the lead
send_private_reply(r, ok) ==
    /\ runners[r].pc = "send"
    /\ LET run == runners[r]
           t == Head(run.todo)
           c == run.batch[run.i]
       IN  IF ~ok
           THEN /\ runners' = [runners EXCEPT ![r].pc = "comment",
                                              ![r].i = @ + 1,
                                              ![r].sendFailed = TRUE]
                /\ levent' = [op |-> "send_failed", id |-> c]
                /\ UNCHANGED <<leads, replySent>>
                /\ replyFailed' = replyFailed \cup {c}
           ELSE IF UniqueViolation(leads, c)
           THEN \* create_lead's flush raises IntegrityError
                /\ replySent' = [replySent EXCEPT ![c] = @ + 1]
                /\ UNCHANGED replyFailed
                /\ runners' = [runners EXCEPT
                                 ![r] = [NextTrigger(run)
                                           EXCEPT !.broken = TRUE]]
                /\ levent' = [op |-> "integrity_error", id |-> c]
                /\ UNCHANGED leads
           ELSE /\ replySent' = [replySent EXCEPT ![c] = @ + 1]
                /\ UNCHANGED replyFailed
                /\ leads' = Append(leads, NewLead(t, c, clock))
                /\ runners' = [runners EXCEPT ![r].pc = "comment",
                                              ![r].i = @ + 1]
                /\ levent' = [op |-> "lead_created", id |-> c]
    /\ UNCHANGED <<clock, triggers, comments, polls>>
    /\ UNCHANGED notLead

\* _process_trigger, lines 121-125: advance the cursor after the batch
advance_cursor(r) ==
    /\ runners[r].pc = "comment"
    /\ runners[r].i > Len(runners[r].batch)
    /\ LET run == runners[r]
           t == Head(run.todo)
       IN  IF run.broken
           THEN /\ levent' = [op |-> "trigger_error", id |-> t]
                /\ UNCHANGED triggers
           ELSE /\ triggers' = update_last_polled(triggers, t, clock)
                /\ levent' = [op |-> "cursor", id |-> t]
    /\ runners' = [runners EXCEPT ![r] = NextTrigger(runners[r])]
    /\ UNCHANGED <<clock, comments, leads, replySent, replyFailed, polls>>
    /\ UNCHANGED notLead

\* no other poll_triggers run is in progress
NoRunInProgress == \A r \in Runners : runners[r].pc = "idle"

LeadEnv ==
    \/ LeadTick
    \/ \E k \in Keywords : setup(k, TRUE)
    \/ \E x \in Texts, u \in Users : comment_posted(x, u)

LeadSteps ==
    \/ \E r \in Runners, ok \in BOOLEAN : fetch_comments(r, ok)
    \/ \E r \in Runners : process_comment(r)
    \/ \E r \in Runners, ok \in BOOLEAN : send_private_reply(r, ok)
    \/ \E r \in Runners : advance_cursor(r)

\* poll runs may overlap
NextLead ==
    \/ LeadEnv
    \/ \E r \in Runners : poll_triggers(r)
    \/ LeadSteps

\* poll runs follow one another (one run of the job at a time)
poll_triggers_exclusive(r) == NoRunInProgress /\ poll_triggers(r)

NextLeadSeq ==
    \/ LeadEnv
    \/ \E r \in Runners : poll_triggers_exclusive(r)
    \/ LeadSteps

\* ------------------------------------------------------------------------
\* Lead automation: poll_conversations
\* ------------------------------------------------------------------------

\* the users whose comments produced the leads of the follow-up loop
ConvUsers == { "u1", "u2" }
ConvLeads == 1..2
UserOf(l) == IF l = 1 THEN "u1" ELSE "u2"
Page == "page"

\* LeadStatus
LeadStatus == { "NEW", "CONTACTED", "REPLIED", "QUALIFIED", "CLOSED" }

\* `msg_time <= since_timestamp` taken as strictly earlier
StampLeq_strict(msg_time, since_timestamp) == msg_time < since_timestamp

\* _extract_new_user_messages, line 258: the string comparison
\* `msg_time <= since_timestamp`.  msg_time is a Graph API created_time
\* (...THH:MM:SS+0000); since_timestamp is either such a string or an
\* isoformat() one (...THH:MM:SS[.ffffff]+00:00).  The strings agree in
\* width up to the seconds, and "+0000" sorts before "+00:00" and before
\* ".ffffff", so the comparison is the comparison of the whole seconds.
StampLeq(msg_time, since_timestamp) == msg_time <= since_timestamp

\* _find_thread: the first conversation holding a message from the user
\* (0 when there is none); a user has one thread
find_thread(conversations, ig_user_id) ==
    IF \E k \in 1..Len(conversations[ig_user_id]) :
          conversations[ig_user_id][k].from = ig_user_id
    THEN ig_user_id
    ELSE ""

\* _last_message_timestamp: None (NoTime) for an empty history
last_message_timestamp(history) ==
    IF history = <<>> THEN NoTime ELSE history[Len(history)].timestamp

\* sorted(result, key=timestamp): a stable sort on timestamps
RECURSIVE sorted(_)
sorted(msgs) ==
    IF msgs = <<>> THEN <<>>
    ELSE LET least == CHOOSE k \in 1..Len(msgs) :
                         /\ \A j \in 1..Len(msgs) :
                               msgs[k].timestamp <= msgs[j].timestamp
                         /\ \A j \in 1..(k - 1) :
                               msgs[j].timestamp # msgs[k].timestamp
             rest == [j \in 1..(Len(msgs) - 1) |->
                         IF j < least THEN msgs[j] ELSE msgs[j + 1]]
         IN  <<msgs[least]>> \o sorted(rest)

\* _extract_new_user_messages
extract_new_user_messages(thread, ig_user_id, since_timestamp) ==
    LET Wanted(m) ==
            /\ m.from = ig_user_id
            /\ ~(since_timestamp # NoTime
                   /\ StampLeq(m.created_time, since_timestamp))
        picked == SelectSeq(thread, Wanted)
    IN  sorted([k \in 1..Len(picked) |->
                  [text |-> picked[k].message,
                   timestamp |-> picked[k].created_time]])

\* lines 187-192: the inbound messages as history entries
UserEntries(msgs) ==
    [k \in 1..Len(msgs) |->
        [role |-> "user", message |-> msgs[k].text,
         timestamp |-> msgs[k].timestamp]]

\* _has_follow_up_enabled counting paused triggers too
has_follow_up_enabled_pausedToo(ts) ==
    \E t \in 1..Len(ts) : ts[t].follow_up_enabled

\* _has_follow_up_enabled
has_follow_up_enabled(ts) ==
    \E t \in 1..Len(ts) : ts[t].is_active /\ ts[t].follow_up_enabled

\* get_contacted without the status filter
get_contacted_anyStatus(rows) == [l \in 1..Len(rows) |-> l]

\* LeadRepository.get_contacted, in id order
get_contacted(rows) ==
    LET Contacted(l) == rows[l].status = "CONTACTED"
    IN  SelectSeq([l \in 1..Len(rows) |-> l], Contacted)

NotLoaded == [loaded |-> FALSE, history |-> <<>>]

\* a thread as get_conversations returns it: the Graph API lists the
\* messages of a conversation newest first
NewestFirst(thread) ==
    [k \in 1..Len(thread) |-> thread[Len(thread) + 1 - k]]

\* lead.conversation_history as the session yields it: the attribute of
\* the object it holds, or the stored column when the object is not
\* loaded or has been expired
HistoryRead(l) ==
    IF session[l].loaded THEN session[l].history
    ELSE leads[l].conversation_history

ConvIdle == [pc |-> "idle", todo |-> <<>>, seen |-> <<>>]

ConvInit ==
    /\ threads = [u \in ConvUsers |-> <<>>]
    /\ session = [l \in ConvLeads |-> NotLoaded]
    /\ conv = ConvIdle
    /\ cpolls = 0
    /\ cevent = [op |-> "init", id |-> 0, new |-> <<>>]

\* the tables and threads as poll_triggers leaves them after one trigger
\* has answered a matching comment of each user at time 0
ContactedInit ==
    /\ clock = 0
    /\ triggers \in
          { <<[keyword |-> k, initial_message |-> "hello",
               follow_up_enabled |-> f, is_active |-> TRUE,
               last_polled_at |-> 0]>> : k \in Keywords, f \in BOOLEAN }
    /\ comments = [l \in ConvLeads |->
                      [text |-> <<"A", "u">>, ig_user_id |-> UserOf(l),
                       timestamp |-> 0]]
    /\ leads = [l \in ConvLeads |-> NewLead(1, l, 0)]
    /\ replySent = [c \in 1..MaxComments |-> IF c \in ConvLeads THEN 1 ELSE 0]
    /\ replyFailed = {}
    /\ runners = [r \in Runners |-> RunnerIdle]
    /\ polls = 0
    /\ levent = [op |-> "init", id |-> 0]
    /\ threads = [u \in ConvUsers |->
                     <<[from |-> Page, message |-> "hello",
                        created_time |-> 0]>>]
    /\ session = [l \in ConvLeads |-> NotLoaded]
    /\ conv = ConvIdle
    /\ cpolls = 0
    /\ cevent = [op |-> "init", id |-> 0, new |-> <<>>]

\* the tables and threads after two triggers have each answered one
\* matching comment at time 0: lead l comes from trigger l; the triggers'
\* flags are as setup, pause and resume have left them, and the second
\* lead may have been moved on in the pipeline
FollowUpInit ==
    /\ clock = 0
    /\ triggers \in
          { <<[keyword |-> k, initial_message |-> "hello",
               follow_up_enabled |-> f1, is_active |-> a1,
               last_polled_at |-> 0],
              [keyword |-> k, initial_message |-> "hello",
               follow_up_enabled |-> f2, is_active |-> TRUE,
               last_polled_at |-> 0]>> :
              k \in Keywords, f1 \in BOOLEAN, a1 \in BOOLEAN,
              f2 \in BOOLEAN }
    /\ comments = [l \in ConvLeads |->
                      [text |-> <<"A", "u">>, ig_user_id |-> UserOf(l),
                       timestamp |-> 0]]
    /\ leads \in
          { [l \in ConvLeads |->
               [NewLead(l, l, 0) EXCEPT
                  !.status = IF l = 2 THEN st ELSE @]] :
              st \in LeadStatus \ {"NEW"} }
    /\ replySent = [c \in 1..MaxComments |-> IF c \in ConvLeads THEN 1 ELSE 0]
    /\ replyFailed = {}
    /\ runners = [r \in Runners |-> RunnerIdle]
    /\ polls = 0
    /\ levent = [op |-> "init", id |-> 0]
    /\ threads = [u \in ConvUsers |->
                     <<[from |-> Page, message |-> "hello",
                        created_time |-> 0]>>]
    /\ session = [l \in ConvLeads |-> NotLoaded]
    /\ conv = ConvIdle
    /\ cpolls = 0
    /\ cevent = [op |-> "init", id |-> 0, new |-> <<>>]

pollVars ==
    <<triggers, comments, replySent, replyFailed, runners, polls, levent>>

\* polaris leads pause
pause(t) ==
    /\ t \in 1..Len(triggers)
    /\ triggers[t].is_active
    /\ triggers' = [triggers EXCEPT ![t].is_active = FALSE]
    /\ UNCHANGED <<clock, leads, comments, replySent, replyFailed, runners,
                   polls, levent, convVars>>
    /\ UNCHANGED notConv

\* polaris leads resume
resume(t) ==
    /\ t \in 1..Len(triggers)
    /\ ~triggers[t].is_active
    /\ triggers' = [triggers EXCEPT ![t].is_active = TRUE]
    /\ UNCHANGED <<clock, leads, comments, replySent, replyFailed, runners,
                   polls, levent, convVars>>
    /\ UNCHANGED notConv

\* time passes
ConvTick ==
    /\ clock < MaxConvClock
    /\ clock' = clock + 1
    /\ UNCHANGED <<leads, pollVars, convVars>>
    /\ UNCHANGED notConv

\* a user writes into the DM thread
inbound_message(u) ==
    /\ Cardinality({<<v, k>> \in ConvUsers \X (1..(MaxInbound + 2)) :
                       /\ k <= Len(threads[v])
                       /\ threads[v][k].from # Page}) < MaxInbound
    /\ threads' = [threads EXCEPT
                     ![u] = Append(@, [from |-> u, message |-> "hi",
                                       created_time |-> clock])]
    /\ UNCHANGED <<clock, leads, pollVars, session, conv, cpolls, cevent>>
    /\ UNCHANGED notConv

\* the session's objects are expired or dropped between two polls: a commit
\* of poll_triggers on the same session (lead_service.py:123), or the
\* caller building the service on a new session
session_expired ==
    /\ conv.pc = "idle"
    /\ \E l \in ConvLeads : session[l].loaded
    /\ session' = [l \in ConvLeads |-> NotLoaded]
    /\ UNCHANGED <<clock, leads, pollVars, threads, conv, cpolls, cevent>>
    /\ UNCHANGED notConv

\* poll_conversations, lines 136-148: the guards, the CONTACTED leads and
\* one fetch of the conversations (get_conversations answers [] when the
\* request fails)
poll_conversations(ok) ==
    /\ conv.pc = "idle"
    /\ cpolls < MaxConvPolls
    /\ cpolls' = cpolls + 1
    /\ IF ~has_follow_up_enabled(triggers)
       THEN /\ cevent' = [op |-> "no_follow_up", id |-> 0, new |-> <<>>]
            /\ UNCHANGED <<conv, session>>
       ELSE IF get_contacted(leads) = <<>>
       THEN /\ cevent' = [op |-> "no_leads", id |-> 0, new |-> <<>>]
            /\ UNCHANGED <<conv, session>>
       ELSE /\ conv' = [pc |-> "leads", todo |-> get_contacted(leads),
                        seen |-> [u \in ConvUsers |->
                                    IF ok THEN NewestFirst(threads[u])
                                    ELSE <<>>]]
            \* the query loads the rows the session does not hold yet
            /\ session' =
                 [l \in ConvLeads |->
                    IF leads[l].status = "CONTACTED" /\ ~session[l].loaded
                    THEN [loaded |-> TRUE,
                          history |-> leads[l].conversation_history]
                    ELSE session[l]]
            /\ cevent' = [op |-> IF ok THEN "fetched" ELSE "fetch_failed",
                          id |-> 0, new |-> <<>>]
    /\ UNCHANGED <<clock, leads, pollVars, threads>>
    /\ UNCHANGED notConv

\* the loop goes on to its next lead, or ends
NextLeadOf(c) ==
    [c EXCEPT !.todo = Tail(@),
              !.pc = IF Len(c.todo) > 1 THEN "leads" ELSE "idle",
              !.seen = IF Len(c.todo) > 1 THEN @ ELSE <<>>]

\* _process_lead_conversation for the next lead of the run; genOk and
\* sendOk are the outcomes of generate_reply and send_message
process_lead_conversation(genOk, sendOk) ==
    /\ conv.pc = "leads"
    /\ LET l == Head(conv.todo)
           ig_user_id == leads[l].commenter_ig_user_id
           history == HistoryRead(l)
           thread == find_thread(conv.seen, ig_user_id)
           new_user_messages ==
              IF thread = "" THEN <<>>
              ELSE extract_new_user_messages(
                      conv.seen[thread], ig_user_id,
                      last_message_timestamp(history))
           appended == history \o UserEntries(new_user_messages)
           reply == [role |-> "assistant", message |-> "reply",
                     timestamp |-> clock]
       IN  IF thread = ""
           THEN /\ cevent' = [op |-> "no_thread", id |-> l, new |-> <<>>]
                /\ UNCHANGED <<leads, threads, session>>
           ELSE IF new_user_messages = <<>>
           THEN /\ cevent' = [op |-> "nothing_new", id |-> l, new |-> <<>>]
                /\ UNCHANGED <<leads, threads, session>>
           ELSE IF ~genOk \/ ~sendOk
           THEN \* history.append has changed the list the Lead object
                \* holds; nothing is written and nothing is expired
                /\ cevent' = [op |-> IF ~genOk THEN "generate_failed"
                                     ELSE "send_failed",
                              id |-> l, new |-> new_user_messages]
                /\ session' = [session EXCEPT
                                 ![l] = [loaded |-> TRUE,
                                         history |-> appended]]
                /\ UNCHANGED <<leads, threads>>
           ELSE /\ cevent' = [op |-> "replied", id |-> l,
                              new |-> new_user_messages]
                /\ threads' = [threads EXCEPT
                                 ![ig_user_id] =
                                    Append(@, [from |-> Page,
                                               message |-> "reply",
                                               created_time |-> clock])]
                \* update_conversation assigns the list object the
                \* attribute already holds: the unit of work compares the
                \* new value with the old one, finds them equal and leaves
                \* the column out of the UPDATE, unless the list is a new
                \* one (`or []` on an empty history)
                /\ leads' = [leads EXCEPT
                               ![l].status = "REPLIED",
                               ![l].conversation_history =
                                  IF history = <<>>
                                  THEN Append(appended, reply)
                                  ELSE @]
                \* commit expires every object of the session
                /\ session' = [k \in ConvLeads |-> NotLoaded]
    /\ conv' = NextLeadOf(conv)
    /\ UNCHANGED <<clock, pollVars, cpolls>>
    /\ UNCHANGED notConv

NextConv ==
    \/ ConvTick
    \/ \E u \in ConvUsers : inbound_message(u)
    \/ session_expired
    \/ \E ok \in BOOLEAN : poll_conversations(ok)
    \/ \E g, o \in BOOLEAN : process_lead_conversation(g, o)

\* the follow-up loop with the operator pausing and resuming triggers
NextFollowUp ==
    \/ NextConv
    \/ \E t \in 1..MaxTriggers : pause(t)
    \/ \E t \in 1..MaxTriggers : resume(t)

\* ------------------------------------------------------------------------

Init == SchedInit /\ PubInit /\ LeadInit /\ ConvInit /\ ClientInit

\* the scheduler's tables as the other specifications leave them
SchedQuiet ==
    /\ SchedInit
    /\ account.token_expires_at = NoTime
    /\ \A c \in ContentIds : contents[c].media_url = ""

NextSched ==
    \/ Tick
    \/ deactivate_account
    \/ activate_account
    \/ \E p \in PostIds : JobDispatch(p)
    \/ \E p \in PostIds : CallbackEntry(p)
    \/ \E p \in PostIds : PublishReturns(p)
    \/ \E p \in PostIds : PublishRaises(p)
    \/ \E c \in ContentIds : create_schedule(c, now + 5)
    \/ \E p \in PostIds : cancel_schedule(p)
    \/ \E p \in PostIds : reschedule(p, now + 5)
    \/ \E p \in PostIds : retry_schedule(p)
    \/ \E c \in ContentIds, o \in BOOLEAN : publish_start(c, o)
    \/ publish_returns
    \/ publish_raises_PublishError
    \/ publish_raises_other

SpecSched == Init /\ [][NextSched]_vars

\* registered jobs eventually fire and every publish attempt terminates:
\* time passes, the scheduler hands a due job to its executor, the
\* callback runs, and publish_content returns or raises
SchedFairness ==
    /\ WF_vars(Tick)
    /\ \A p \in PostIds :
          /\ WF_vars(JobDispatch(p))
          /\ WF_vars(CallbackEntry(p))
          /\ WF_vars(PublishReturns(p) \/ PublishRaises(p))

SpecSchedLive == Init /\ [][NextSched]_vars /\ SchedFairness

\* the operations that write a Content's status: polaris content ready,
\* polaris publish and the scheduled publish
NextContent ==
    \/ Tick
    \/ \E c \in ContentIds, o \in BOOLEAN : mark_ready(c, o)
    \/ \E c \in ContentIds : create_schedule(c, now + 5)
    \/ \E p \in PostIds : JobDispatch(p)
    \/ \E p \in PostIds : CallbackEntry(p)
    \/ \E p \in PostIds : PublishReturns(p)
    \/ \E p \in PostIds : PublishRaises(p)
    \/ \E c \in ContentIds, o \in BOOLEAN : publish_start(c, o)
    \/ publish_returns
    \/ publish_raises_PublishError
    \/ publish_raises_other

SpecContent == Init /\ [][NextContent]_vars

\* the scheduler with the callback's and cancel's reads and writes as
\* separate steps
NextSchedRace ==
    \/ Tick
    \/ \E p \in PostIds : JobDispatch(p)
    \/ \E p \in PostIds : CallbackLoad(p)
    \/ \E p \in PostIds : CallbackCommit(p)
    \/ \E p \in PostIds : PublishReturns(p)
    \/ \E p \in PostIds : PublishRaises(p)
    \/ \E c \in ContentIds : create_schedule(c, now + 5)
    \/ \E p \in PostIds : cancel_schedule_read(p)
    \/ cancel_schedule_write
    \/ \E p \in PostIds : reschedule(p, now + 5)
    \/ \E p \in PostIds : retry_schedule(p)

SpecSchedRace == Init /\ [][NextSchedRace]_vars

\* the scheduler process stopped and started again around due jobs
NextMisfire ==
    \/ Tick
    \/ \E c \in ContentIds : create_schedule(c, now + 5)
    \/ scheduler_stop
    \/ \E d \in OutageMinutes : outage(d)
    \/ scheduler_start
    \/ \E p \in PostIds : JobDispatch(p)
    \/ \E p \in PostIds : JobMissed(p)
    \/ \E p \in PostIds : CallbackEntry(p)
    \/ \E p \in PostIds : PublishReturns(p)
    \/ \E p \in PostIds : PublishRaises(p)

SpecMisfire == Init /\ [][NextMisfire]_vars

\* delays a caller may ask for, in minutes
Delays == {5, 10}

\* any sequence of schedule_post, reschedule_post and cancel_scheduled_post
\* calls around the jobs' executions
NextJobStore ==
    \/ Tick
    \/ \E c \in ContentIds : create_schedule(c, now + 5)
    \/ \E p \in PostIds, d \in Delays : call_schedule_post(p, now + d)
    \/ \E p \in PostIds, d \in Delays : call_reschedule_post(p, now + d)
    \/ \E p \in PostIds : call_cancel_scheduled_post(p)
    \/ \E p \in PostIds : JobDispatch(p)
    \/ \E p \in PostIds : CallbackEntry(p)
    \/ \E p \in PostIds : PublishReturns(p)
    \/ \E p \in PostIds : PublishRaises(p)

\* one account whose token does not expire, contents with a media URL
JobStoreInit ==
    /\ Init
    /\ account.token_expires_at = NoTime
    /\ \A c \in ContentIds : contents[c].media_url = "u"

SpecJobStore == JobStoreInit /\ [][NextJobStore]_vars

PubSpecInit == SchedQuiet /\ PubInit /\ LeadInit /\ ConvInit /\ ClientInit

LeadSpecInit == SchedQuiet /\ PubInit /\ LeadInit /\ ConvInit /\ ClientInit

ConvSpecInit == SchedQuiet /\ PubInit /\ ContactedInit /\ ClientInit

ClientSpecInit == SchedQuiet /\ PubInit /\ LeadInit /\ ConvInit /\ ClientInit

SpecClient == ClientSpecInit /\ [][NextClient]_vars

SpecPub == PubSpecInit /\ [][NextPub]_vars

SpecPoll == PubSpecInit /\ [][NextPoll]_vars

SpecLead == LeadSpecInit /\ [][NextLead]_vars

SpecLeadSeq == LeadSpecInit /\ [][NextLeadSeq]_vars

SpecConv == ConvSpecInit /\ [][NextConv]_vars

FollowUpSpecInit == SchedQuiet /\ PubInit /\ FollowUpInit /\ ClientInit

SpecFollowUp == FollowUpSpecInit /\ [][NextFollowUp]_vars

\* ------------------------------------------------------------------------
\* Properties of the scheduler
\* ------------------------------------------------------------------------

\* the execution callback of post p runs its first part in this step
CallbackRuns(p) == pc[p] = "dispatched" /\ pc'[p] # "dispatched"

\* the execution callback of post p returns through its except branch
CallbackRaised(p) ==
    /\ pc[p] \in {"dispatched", "publishing"}
    /\ pc'[p] = "idle"
    /\ last' = [op |-> "raised", id |-> p]

\* a publisher call for content c is issued in this step
PublishCallIssued(c) ==
    \/ \E p \in Existing :
          /\ posts[p].content_id = c
          /\ pc[p] # "publishing"
          /\ pc'[p] = "publishing"
    \/ cli.content # c /\ cli'.content = c

\* C1: when the execution callback fires for a ScheduledPost whose stored
\* status is not PENDING, it makes no publisher or remote call and leaves
\* the ScheduledPost, its Content and the job store unchanged.
C1_NonPendingFireIsNoop ==
    [][\A p \in Existing :
          (CallbackRuns(p) /\ posts[p].status # "pending")
              => /\ pc'[p] = "idle"
                 /\ posts' = posts
                 /\ contents' = contents
                 /\ jobs' = jobs
                 /\ remotePublished' = remotePublished]_vars

\* C1 witness: the callback has just returned for a post that was cancelled
\* between the dispatch of its job and the callback's status check
C1_Witness ==
    /\ last.op = "noop"
    /\ posts[last.id].status = "cancelled"
    /\ pc[last.id] = "idle"

C3_PublishedNeverRepublished ==
    [][\A c \in ContentIds :
          (contents[c].status = "published"
             /\ contents[c].instagram_media_id # NoMedia)
              => ~PublishCallIssued(c)]_vars

\* C10: every ScheduledPost satisfies retry_count <= max_retries, and a
\* retry (the callback's automatic retry or the CLI retry command) returns
\* a failed post to PENDING only if its retry_count < max_retries.
C10_RetryCountBounded ==
    [][\A p \in 1..Len(posts') :
          /\ posts'[p].retry_count <= posts'[p].max_retries
          /\ (/\ last'.id = p
              /\ last'.op \in {"raised", "retry"}
              /\ last' # last
              /\ posts'[p].status = "pending")
                 => posts'[p].retry_count < posts'[p].max_retries]_vars

\* C10 witness: the automatic retry has returned a post to PENDING on its
\* last permitted retry, and another post has exhausted its retries
C10_Witness ==
    /\ last.op = "raised"
    /\ posts[last.id].status = "pending"
    /\ posts[last.id].retry_count = posts[last.id].max_retries - 1
    /\ \E q \in Existing :
          /\ posts[q].status = "failed"
          /\ posts[q].retry_count = posts[q].max_retries

\* C11: after a failed execution that leaves retries remaining, a new job
\* for the same post is registered with run time equal to the failure time
\* plus 5 x (new retry_count) minutes, at every minute of the hour.
C11_RetryJobAtBackoff ==
    [][\A p \in Existing :
          (CallbackRaised(p)
             /\ posts[p].retry_count + 1 < posts[p].max_retries)
              => JobsOf(jobs', p) =
                    {Job(p, now + RetryBackoffMinutes
                                     * (posts[p].retry_count + 1))}]_vars

\* C19: at no time are two publish attempts for the same Content in
\* progress, under any interleaving of job executions (jobs of different
\* ScheduledPosts bound to the same Content included).
C19_OnePublishPerContent ==
    \A p, q \in Existing :
       (p # q /\ posts[p].content_id = posts[q].content_id)
          => ~(pc[p] = "publishing" /\ pc[q] = "publishing")

\* C20: a Content with status PUBLISHED has a media id; when a job
\* execution publishes successfully, the ScheduledPost becomes PUBLISHED
\* with a timestamp and its Content PUBLISHED with the media id the
\* publish call returned, in the same step.
C20_PublishedHasMediaId ==
    [][/\ \A c \in ContentIds :
             contents'[c].status = "published"
                => contents'[c].instagram_media_id # NoMedia
       /\ \A p \in Existing :
             (posts[p].status # "published" /\ posts'[p].status = "published")
                => LET c == posts[p].content_id
                   IN  /\ remotePublished'[c] = remotePublished[c] + 1
                       /\ posts'[p].published_at = now
                       /\ contents'[c].status = "published"
                       /\ contents'[c].instagram_media_id =
                              c * 10 + remotePublished'[c]]_vars

\* a job execution has just published its post
C20_Witness ==
    /\ last.op = "published"
    /\ posts[last.id].status = "published"
    /\ posts[last.id].published_at = now
    /\ contents[posts[last.id].content_id].status = "published"
    /\ contents[posts[last.id].content_id].instagram_media_id # NoMedia

\* C18: once a ScheduledPost's status is PUBLISHED or CANCELLED it never
\* changes again, under any interleaving of job executions and the cancel,
\* reschedule and retry commands.
C18_TerminalStatusFinal ==
    [][\A p \in Existing :
          posts[p].status \in {"published", "cancelled"}
             => posts'[p].status = posts[p].status]_vars

\* the account of the posts fails the callback's checks of lines 176-180
AccountUnusable == ~account.is_active \/ is_token_expired(account, now)

\* C22: when the callback runs for a PENDING post whose Account is
\* inactive or whose credential has expired, no publisher or remote call
\* is made, and the execution is handled as a failure: error text
\* recorded, retry_count incremented, PENDING again if retries remain and
\* FAILED otherwise.
C22_UnusableAccountFailsLocally ==
    [][\A p \in Existing :
          (CallbackRuns(p) /\ posts[p].status = "pending" /\ AccountUnusable)
              => /\ pc'[p] # "publishing"
                 /\ remotePublished' = remotePublished
                 /\ posts'[p].error_message # ""
                 /\ posts'[p].retry_count = posts[p].retry_count + 1
                 /\ posts'[p].status =
                        IF posts'[p].retry_count < posts'[p].max_retries
                        THEN "pending" ELSE "failed"]_vars

\* C27: a PENDING post whose job was missed while the process was down
\* fires on the next startup if the delay is within the grace window; if
\* the delay exceeds it the post does not silently stay un-run but ends up
\* marked as a failure.  A PENDING post is therefore never left without a
\* job that will fire, unless its callback is running.
C27_MissedPostNotLeftPending ==
    \A p \in Existing :
       (posts[p].status = "pending" /\ pc[p] = "idle")
           => /\ JobsOf(jobs, p) # {}
              /\ (/\ running
                  /\ \E j \in JobsOf(jobs, p) :
                        /\ j.run_time <= now
                        /\ now - j.run_time <= MisfireGraceMinutes)
                     => ENABLED JobDispatch(p)

\* C29: the job store holds at most one job per ScheduledPost id after any
\* sequence of schedule_post, reschedule_post and cancel_scheduled_post
\* calls: a job registered for an id that has one replaces it, so the post
\* fires at most once, at the most recently registered time.
C29_OneJobPerPost ==
    [][\A p \in PostIds :
          /\ Cardinality(JobsOf(jobs', p)) <= 1
          /\ \A j \in JobsOf(jobs', p) \ JobsOf(jobs, p) :
                JobsOf(jobs', p) = {j}
          /\ (pc[p] = "idle" /\ pc'[p] = "dispatched")
                => JobsOf(jobs', p) = {}]_vars

C29_Witness ==
    /\ last.op = "schedule_post_replaced"
    /\ Cardinality(JobsOf(jobs, last.id)) = 1
    /\ \E q \in Existing : q # last.id /\ JobsOf(jobs, q) # {}

\* the moves of a Content's status the lifecycle allows
StatusMoveAllowed(old, new) ==
    \/ new = old
    \/ old = "draft" /\ new \in {"ready", "published", "failed"}
    \/ old = "ready" /\ new \in {"published", "failed"}
    \/ old = "failed" /\ new \in {"ready", "published"}

\* C21: a Content's status only moves forward (draft, ready, published, or
\* to failed), the sole way back being failed to ready; a PUBLISHED
\* Content never becomes draft, ready or failed.
C21_ContentStatusForward ==
    [][\A c \in ContentIds :
          StatusMoveAllowed(contents[c].status, contents'[c].status)]_vars


\* ------------------------------------------------------------------------

CallsNamed(names) ==
    Cardinality({i \in 1..Len(calls) : calls[i].call \in names})

\* create calls that returned a container id
CreatesReturned ==
    Cardinality({i \in 1..Len(calls) :
        /\ calls[i].call \in {"create_media_container",
                              "create_video_container",
                              "create_story_container",
                              "create_story_video_container"}
        /\ calls[i].ids # <<>>})

\* C6: a publish attempt for an image, video/reel or story that ends in
\* PROCESSING_FAILED (container status ERROR) or TIMED_OUT is not retried:
\* one container was created, the polling loop ran once, and the
\* PublishError is what the caller gets.
C6_ProcessingFailureNotRetried ==
    (/\ pub.pc = "done"
     /\ pub.op \in {"image", "video", "story", "story_video"}
     /\ pub.result.kind \in {"PublishError:container_failed",
                             "PublishError:timed_out"})
        => /\ CreatesReturned = 1
           /\ CallsNamed({"_wait_for_container"}) = 1

\* C7: _wait_for_container returns normally when the polled sequence ends
\* in FINISHED within the timeout, and raises PublishError carrying the
\* remote status text when it contains ERROR.
C7_WaitOutcome ==
    /\ pub.lastStatus = "FINISHED" => pub.wait.kind = "returned"
    /\ (pub.wait.kind = "returned" /\ pub.pc = "publish")
          => pub.lastStatus = "FINISHED"
    /\ "ERROR" \in pub.seen
          => /\ pub.wait.kind = "PublishError:container_failed"
             /\ pub.lastText # "" => pub.wait.text = pub.lastText
             /\ pub.pc = "done" => pub.result = pub.wait

\* C7 witness: FINISHED arrives on the last poll the timeout allows, after
\* IN_PROGRESS answers, and the wait has returned
C7_Witness ==
    /\ pub.lastStatus = "FINISHED"
    /\ "IN_PROGRESS" \in pub.seen
    /\ pub.elapsed = pub.max_wait - CONTAINER_CHECK_INTERVAL
    /\ pub.wait.kind = "returned"
    /\ pub.pc = "publish"

\* C8: if the polled status never becomes FINISHED or ERROR, the wait ends
\* in a timeout PublishError after an accumulated polling time E with
\* T <= E < T + 5, T = 300 s for image and story-image containers and
\* 600 s for video/reel and story-video containers.
C8_TimeoutWindow ==
    LET T == IF pub.op \in {"video", "story_video"} THEN 600 ELSE 300
    IN  /\ pub.pc \in {"wait", "wait_items"}
              => /\ pub.max_wait = T
                 /\ pub.elapsed <= T
        /\ pub.wait.kind = "PublishError:timed_out"
              => /\ T <= pub.elapsed
                 /\ pub.elapsed < T + 5
                 /\ pub.seen \cap {"FINISHED", "ERROR"} = {}

\* C8 witness: a video container has timed out after 600 s of polling in
\* which EXPIRED was among the answers
C8_Witness ==
    /\ pub.op = "video"
    /\ pub.wait.kind = "PublishError:timed_out"
    /\ pub.elapsed = 600
    /\ "EXPIRED" \in pub.seen
    /\ pub.pc = "done"

\* the calls C9 expects of a carousel of n slides whose containers get the
\* ids 1..n+1
CarouselCalls(urls) ==
    LET n == Len(urls)
        ids == [i \in 1..n |-> i]
    IN  [i \in 1..n |->
            Call("create_carousel_item_container", urls[i], <<i>>, "")]
        \o [i \in 1..n |-> Call("_wait_for_container", <<>>, <<i>>, "")]
        \o <<Call("create_carousel_container", <<>>, ids, ""),
             Call("_wait_for_container", <<>>, <<n + 1>>, ""),
             Call("publish_media", <<>>, <<n + 1>>, "")>>

\* C9: a successful carousel publish with N slides issues exactly N item
\* creates, then N item waits, then one aggregating create referencing all
\* N item ids, one aggregating wait and one publish, in that order and
\* with no other call.
C9_CarouselCallOrder ==
    (pub.pc = "done" /\ pub.op = "carousel" /\ pub.result.kind = "ok")
        => calls = CarouselCalls(pub.urls)

\* C9 witness: a carousel of three slides has been published
C9_Witness ==
    /\ pub.pc = "done"
    /\ pub.op = "carousel"
    /\ pub.result.kind = "ok"
    /\ Len(pub.urls) = 3
    /\ Len(calls) = 9

\* ------------------------------------------------------------------------
\* Properties of the comment-trigger loop
\* ------------------------------------------------------------------------

LeadsOf(c) == {i \in 1..Len(leads) : leads[i].comment_id = c}

\* the comment texts that contain the keyword "aU" in some mix of cases,
\* listed by hand
TextsWithKeyword == { <<"A", "u">>, <<"x", "a", "U", "x">> }

\* a run has worked through a whole batch and every send it made succeeded
BatchDone(r) ==
    /\ runners[r].pc = "comment"
    /\ runners[r].i > Len(runners[r].batch)
    /\ ~runners[r].sendFailed
    /\ ~runners[r].broken

InBatch(r) == {runners[r].batch[k] : k \in 1..Len(runners[r].batch)}

\* C4: in every reachable state there is at most one Lead per comment_id,
\* also when the same comment is returned by more than one fetch
\* (overlapping poll runs, or two triggers watching the same post).
C4_OneLeadPerComment ==
    \A c \in 1..Len(comments) : Cardinality(LeadsOf(c)) <= 1

\* a second run got as far as inserting a Lead for a comment that already
\* has one, and the table still holds a single row for it
C4_Witness ==
    /\ levent.op = "integrity_error"
    /\ Cardinality(LeadsOf(levent.id)) = 1
    /\ Len(triggers) = 2

CursorStep(r) ==
    /\ runners[r].pc = "comment"
    /\ runners[r].i > Len(runners[r].batch)
    /\ ~runners[r].broken
    /\ runners'[r] # runners[r]

\* run r receives the comments of its current trigger in this step
FetchStep(r) ==
    /\ runners[r].pc = "fetch"
    /\ runners'[r].pc = "comment"
    /\ levent'.op = "fetched"

\* run r's private-reply request fails in this step
SendFailStep(r) ==
    /\ runners[r].pc = "send"
    /\ runners'[r].pc = "comment"
    /\ replySent' = replySent

MaxOf(S) == CHOOSE x \in S : \A y \in S : y <= x

\* C14: if the private-reply send for a keyword-matching comment X fails
\* during a poll, no Lead is created for X, and the next poll of the same
\* trigger has X in its batch again (and so attempts the send again).
C14_FailedSendRetriedNextPoll ==
    [][\A r \in Runners :
          /\ SendFailStep(r) => leads' = leads
          /\ FetchStep(r) =>
                \A c \in replyFailed :
                   (/\ LeadsOf(c) = {}
                    /\ KeywordMatches(triggers[Head(runners[r].todo)].keyword,
                                      comments[c].text))
                      => \E k \in 1..Len(runners'[r].batch) :
                            runners'[r].batch[k] = c]_vars

\* C15: after a poll of a trigger that fetched a non-empty batch, the
\* trigger's cursor equals the latest comment timestamp of that batch.
C15_CursorIsLatestCommentTime ==
    [][\A r \in Runners :
          (CursorStep(r) /\ runners[r].batch # <<>>)
             => triggers'[Head(runners[r].todo)].last_polled_at =
                   MaxOf({comments[c].timestamp : c \in InBatch(r)})]_vars

C17_LeadCommittedWithDm ==
    \A i \in 1..Len(leads) :
       /\ leads[i].dm_sent
       /\ leads[i].dm_sent_at # NoTime
       /\ leads[i].status # "NEW"
       /\ Len(leads[i].conversation_history) >= 1
       /\ leads[i].conversation_history[1].role = "assistant"
       /\ leads[i].conversation_history[1].message =
             triggers[leads[i].trigger_id].initial_message
       /\ replySent[leads[i].comment_id] >= 1

\* one comment has its Lead, and another matching comment whose send
\* failed has none
C17_Witness ==
    /\ Len(leads) = 1
    /\ \E c \in replyFailed : LeadsOf(c) = {} /\ replySent[c] = 0

\* ------------------------------------------------------------------------
\* Properties of the follow-up loop
\* ------------------------------------------------------------------------

\* the loop handles the next lead of its run in this step
LeadStep == conv.pc = "leads" /\ conv' # conv

\* the step got as far as generating a reply
ReplyAttempted ==
    cevent'.op \in {"generate_failed", "send_failed", "replied"}

\* positions, in the fetched thread of lead l's user, of the user's
\* messages later than time T
NewerThan(l, T) ==
    LET thread == conv.seen[leads[l].commenter_ig_user_id]
    IN  {k \in 1..Len(thread) :
            /\ thread[k].from = leads[l].commenter_ig_user_id
            /\ thread[k].created_time > T}

LastStamp(history) == history[Len(history)].timestamp

\* C12: if reply generation or the DM send fails for a lead, the stored
\* lead is unchanged, and whenever a later poll handles the lead, the
\* inbound messages later than the end of its stored history are treated
\* as new again.
C12_FailedReplyRetriedNextPoll ==
    [][LeadStep =>
          LET l == Head(conv.todo)
          IN  /\ cevent'.op \in {"generate_failed", "send_failed"}
                    => leads' = leads
              /\ NewerThan(l, LastStamp(leads[l].conversation_history)) # {}
                    => ReplyAttempted]_vars

ContentInvalid ==
    /\ pub.content # NoContent
    /\ \/ pub.content.media_url = <<>>
       \/ pub.content.media_type \notin ContentType

\* C23: publish_content raises PublishError without making any remote call
\* whenever the Content has no media URL or its media type is unset or
\* unrecognised.
C23_InvalidContentFailsLocally ==
    ContentInvalid
        => /\ pub.pc = "done"
           /\ pub.result.kind \in {"PublishError:no_media_url",
                                   "PublishError:unsupported"}
           /\ calls = <<>>

C23_Witness ==
    /\ pub.content.media_url # <<>>
    /\ pub.content.media_type = "album"
    /\ pub.result.kind = "PublishError:unsupported"

\* the publish_* methods that create one container
SingleOps == {"image", "video", "story", "story_video"}

CreateCalls ==
    {"create_media_container", "create_video_container",
     "create_story_container", "create_story_video_container"}

\* positions of the publish_media calls in the call history
PublishIdx == {i \in 1..Len(calls) : calls[i].call = "publish_media"}

\* a single-container publish returned a media id
SuccessfulSingle ==
    /\ pub.op \in SingleOps
    /\ pub.pc = "done"
    /\ pub.result.kind = "ok"

\* every publish_media call names the container the latest create call
\* returned, it is made only once FINISHED has been observed for that
\* container, and the invocation returns what publish_media returned
PublishAfterFinished ==
    /\ pub.op \in SingleOps =>
         \A i \in PublishIdx :
            \E j \in 1..(i - 1) :
               /\ calls[j].call \in CreateCalls
               /\ \A k \in (j + 1)..(i - 1) : calls[k].call \notin CreateCalls
               /\ calls[j].ids # <<>>
               /\ calls[i].ids = calls[j].ids
    /\ (pub.op \in SingleOps /\ pub.pc = "publish") =>
         /\ pub.lastStatus = "FINISHED"
         /\ pub.wait.kind = "returned"
    /\ SuccessfulSingle =>
         /\ pub.lastStatus = "FINISHED"
         /\ calls[Len(calls)] =
                Call("publish_media", <<>>, <<pub.container>>, "")
         /\ pub.result.id = PublishedIdOf(pub.container)

\* the first attempt saw IN_PROGRESS, IN_PROGRESS, FINISHED: the wait
\* returned on the third status check with 10 s slept and one create call
ThreeChecks ==
    (/\ pub.op \in SingleOps
     /\ pub.attempt = 1
     /\ pub.wait.kind = "returned"
     /\ pub.checks = 3
     /\ pub.seen = {"IN_PROGRESS", "FINISHED"})
        => /\ pub.elapsed = 2 * CONTAINER_CHECK_INTERVAL
           /\ CreatesReturned = 1
           /\ pub.pc \in {"publish", "done"}
           /\ pub.pc = "done" => Cardinality(PublishIdx) = 1

\* C24: in every successful single-container publish, publish_media is
\* called exactly once, only after FINISHED has been observed for that
\* container, with the container id returned by the create call, and the
\* invocation returns the media id publish_media returned; for the
\* statuses IN_PROGRESS, IN_PROGRESS, FINISHED this happens after the
\* third status check with 10 s of accumulated wait and one create call.
C24_PublishMediaExactlyOnce ==
    /\ PublishAfterFinished
    /\ ThreeChecks
    /\ SuccessfulSingle => Cardinality(PublishIdx) = 1

\* C24 as amended: publish_media is called once per attempt of the retried
\* method, so between one and three times; the rest as above.
C24_PublishMediaOncePerAttempt ==
    /\ PublishAfterFinished
    /\ ThreeChecks
    /\ SuccessfulSingle =>
         /\ Cardinality(PublishIdx) \in 1..RetryAttempts
         /\ Cardinality(PublishIdx) <= pub.attempt

C24_Witness ==
    /\ SuccessfulSingle
    /\ Cardinality(PublishIdx) = 2
    /\ pub.checks = 3
    /\ pub.seen = {"IN_PROGRESS", "FINISHED"}

\* C25: every carousel publish issued through publish_content or
\* publish_carousel creates N item containers with 2 <= N <= 10; no
\* carousel with fewer than 2 or more than 10 slides reaches the remote
\* API.
C25_CarouselItemCount ==
    CallsNamed({"create_carousel_item_container",
                "create_carousel_container"}) > 0
        => Len(pub.urls) \in CarouselMinItems..CarouselMaxItems

\* ------------------------------------------------------------------------
\* Properties of the platform client
\* ------------------------------------------------------------------------

\* C26: a remote call that fails with HTTP 401 is attempted exactly once:
\* neither the client nor the publisher retries it, and
\* AuthenticationError surfaces to the caller.
C26_AuthenticationFailureNotRetried ==
    \A i \in 1..Len(http) :
       http[i] = 401
           => /\ i = Len(http)
              /\ req.pc = "done"
              /\ req.result = "AuthenticationError"

\* ------------------------------------------------------------------------
\* Properties of the polling loops: fault isolation
\* ------------------------------------------------------------------------

\* C28: in poll_triggers and poll_conversations an exception raised while
\* processing one trigger or lead does not prevent any other trigger or
\* lead of the same poll from being processed, and is never raised to the
\* caller: a trigger taken up after another one raised is processed like
\* any other and does not fail on account of the earlier exception.
C28_FaultIsolatedPerTrigger ==
    [][\A r \in Runners :
          (runners[r].broken /\ runners'[r] # runners[r])
              => levent'.op # "trigger_error"]_vars

\* the execution of p's job has read the row of p and is at work on it
JobFired(p) == pc[p] \in {"loaded", "publishing"}

\* polaris schedule cancel writes its result for post p
CancelWrites(p) == cmd.op = "cancel" /\ cmd.id = p /\ cmd'.op = "none"

\* C30: cancel succeeds only for a ScheduledPost in PENDING whose job has
\* not fired; on a post in any other status it changes neither the post
\* nor the job store, and it leaves a publish attempt that is under way,
\* and the post of that attempt, as they are.
C30_CancelOnlyPendingUnfired ==
    [][\A p \in Existing :
          /\ (posts[p].status # "cancelled" /\ posts'[p].status = "cancelled")
                => posts[p].status = "pending" /\ ~JobFired(p)
          /\ (CancelWrites(p) /\ posts[p].status # "pending")
                => posts'[p] = posts[p] /\ jobs' = jobs
          /\ (CancelWrites(p) /\ pc[p] = "publishing")
                => posts'[p] = posts[p] /\ pc'[p] = "publishing"]_vars

\* the five publish paths of the publisher
PublishPaths == {"image", "video", "carousel", "story", "story_video"}

\* publish_content can start publish path s
ReachableThroughContent(s) ==
    ENABLED (/\ \E u \in MediaLocators, t \in MediaTypes :
                   publish_content(u, t)
             /\ pub'.op = s)

\* C31: publish_content chooses the path from the Content's media type
\* alone: image -> image, video / reel -> video tagged REELS, carousel ->
\* the items of the split locator; and each of the five publish paths,
\* the two story paths included, can be started through publish_content.
C31_PathFromMediaShape ==
    [][(pub.pc = "idle" /\ pub'.content # NoContent)
          => /\ LET c == pub'.content
                IN  pub'.pc # "done" =>
                      /\ c.media_type = "image" <=> pub'.op = "image"
                      /\ c.media_type \in {"video", "reel"}
                            <=> pub'.op = "video"
                      /\ c.media_type = "carousel" <=>
                            (pub'.op = "carousel"
                               /\ pub'.urls = image_urls(c.media_url))
             /\ \A s \in PublishPaths : ReachableThroughContent(s)]_vars

\* history `old` is the beginning of history `new`
HistoryPrefix(old, new) ==
    /\ Len(old) <= Len(new)
    /\ \A k \in 1..Len(old) : new[k] = old[k]

\* _process_lead_conversation has sent a follow-up reply to lead l
FollowUpSent(l) ==
    /\ conv.pc = "leads"
    /\ conv' # conv
    /\ Head(conv.todo) = l
    /\ cevent'.op = "replied"

\* C32: a Lead's stored conversation history is append-only: every step
\* leaves the stored history a prefix of the new one, and a successful
\* follow-up stores the old history, then the new inbound messages, then
\* the assistant reply.
C32_HistoryAppendOnly ==
    [][\A l \in ConvLeads :
          LET old == leads[l].conversation_history
              new == leads'[l].conversation_history
          IN  /\ HistoryPrefix(old, new)
              /\ FollowUpSent(l) =>
                   /\ Len(new) = Len(old) + Len(cevent'.new) + 1
                   /\ \A k \in 1..Len(cevent'.new) :
                         /\ new[Len(old) + k].role = "user"
                         /\ new[Len(old) + k].message = cevent'.new[k].text
                   /\ new[Len(new)].role = "assistant"]_vars

\* the polling loop goes round once more: same attempt, same container,
\* one interval later, nothing raised or returned
KeepsPolling ==
    /\ pub'.pc = "wait"
    /\ pub'.attempt = pub.attempt
    /\ pub'.container = pub.container
    /\ pub'.elapsed = pub.elapsed + CONTAINER_CHECK_INTERVAL
    /\ pub'.wait = pub.wait
    /\ pub'.result = pub.result

\* the wait has returned to the publish_* method
WaitReturns == pub'.pc = "publish" /\ pub'.wait.kind = "returned"

\* the wait has raised: the method ends with the error or is called again
WaitRaises ==
    \/ pub'.pc = "done" /\ pub'.result.kind = "PublishError:container_failed"
    \/ pub'.pc = "create" /\ pub'.attempt = pub.attempt + 1

\* what the claim expects of a poll answered with status code c
PollOutcome(c) ==
    IF c = "FINISHED" THEN WaitReturns
    ELSE IF c = "ERROR" THEN WaitRaises
    ELSE KeepsPolling

\* C33: whenever the polling loop polls, FINISHED returns, ERROR raises,
\* and IN_PROGRESS, EXPIRED, any other code and a missing code make the
\* loop wait one interval and poll again; the wait's own error comes only
\* after ERROR or when the time is up, so EXPIRED followed by FINISHED
\* returns normally.
C33_ExpiredKeepsPolling ==
    /\ (pub.pc = "wait" /\ LoopContinues(pub.elapsed, pub.max_wait))
          => \A r \in StatusResponses \cup {NoStatusCode} :
                /\ ENABLED check_container_status(r)
                /\ ~ENABLED (/\ check_container_status(r)
                             /\ ~PollOutcome(r.status_code))
    /\ pub.wait.kind = "PublishError:container_failed"
          => pub.lastStatus = "ERROR"
    /\ pub.wait.kind = "PublishError:timed_out"
          => ~LoopContinues(pub.elapsed, pub.max_wait)

\* a container answered EXPIRED and then FINISHED, and the wait returned
C33_Witness ==
    /\ pub.wait.kind = "returned"
    /\ pub.lastStatus = "FINISHED"
    /\ pub.seen = {"EXPIRED", "FINISHED"}
    /\ pub.checks = 2

\* no job execution and no CLI command is under way
NothingInProgress == cli.content = 0 /\ \A p \in PostIds : pc[p] = "idle"

\* C34: whenever no operation is in progress, every PENDING ScheduledPost
\* has a registered job in the job store.
C34_PendingPostHasJob ==
    NothingInProgress =>
       \A p \in Existing :
          posts[p].status = "pending" => JobsOf(jobs, p) # {}

\* ScheduledPost p has reached PUBLISHED, CANCELLED or FAILED
Settled(p) ==
    /\ p \in Existing
    /\ posts[p].status \in {"published", "cancelled", "failed"}

\* every job registered for p eventually fires or is removed
JobsEventuallyFire(p) == (JobsOf(jobs, p) # {}) ~> (JobsOf(jobs, p) = {})

\* C35: if registered jobs eventually fire and every publish attempt
\* terminates, no post is in PROCESSING once its execution callback has
\* returned, and every ScheduledPost eventually reaches PUBLISHED,
\* CANCELLED or FAILED.
C35_EveryPostSettles ==
    (\A p \in PostIds : JobsEventuallyFire(p))
       => /\ [](\A p \in Existing :
                   pc[p] = "idle" => posts[p].status # "processing")
          /\ \A p \in PostIds : [](p \in Existing => <>Settled(p))

\* C36: even when poll_triggers runs that fetched the same matching comment
\* interleave, at most one private reply is delivered for a comment id.
C36_OneReplyUnderInterleaving ==
    \A r, q \in Runners :
       \A c \in 1..Len(comments) :
          (c \in InBatch(r) /\ c \in InBatch(q)) => replySent[c] <= 1

\* C37: a poll whose fetch of a trigger's comments failed does not advance
\* that trigger's cursor (so that a matching comment posted before the
\* failed fetch is fetched by a later poll).
C37_FailedFetchKeepsCursor ==
    [][\A r \in Runners :
          (CursorStep(r) /\ levent.op = "fetch_failed"
             /\ levent.id = Head(runners[r].todo))
              => triggers'[levent.id].last_polled_at
                    = triggers[levent.id].last_polled_at]_vars

\* position of a status in the pipeline
StatusRank(st) ==
    CASE st = "NEW" -> 0
      [] st = "CONTACTED" -> 1
      [] st = "REPLIED" -> 2
      [] st = "QUALIFIED" -> 3
      [] st = "CLOSED" -> 4

\* the follow-up replies delivered to the user of lead l
FollowUpsTo(l) ==
    {k \in 1..Len(threads[UserOf(l)]) :
        /\ threads[UserOf(l)][k].from = Page
        /\ threads[UserOf(l)][k].message = "reply"}

\* the loop works on lead l in this step
LeadProcessed(l) ==
    conv.pc = "leads" /\ conv' # conv /\ Head(conv.todo) = l

\* C38: over any sequence of poll_conversations runs each Lead gets at
\* most one AI follow-up: the loop works on a Lead, and messages it, only
\* while it is CONTACTED, a successful send makes it REPLIED, and no step
\* moves a Lead's status backwards.
C38_OneFollowUpPerLead ==
    [][\A l \in ConvLeads :
          /\ Cardinality(FollowUpsTo(l)) <= 1
          /\ LeadProcessed(l) => leads[l].status = "CONTACTED"
          /\ threads'[UserOf(l)] # threads[UserOf(l)]
                /\ LeadProcessed(l)
                => /\ leads[l].status = "CONTACTED"
                   /\ leads'[l].status = "REPLIED"
          /\ ~LeadProcessed(l) => leads'[l].status = leads[l].status
          /\ StatusRank(leads'[l].status) >= StatusRank(leads[l].status)]_vars

\* a lead that was answered and is REPLIED, and a lead further on in the
\* pipeline, have both written again, and a later run has found no lead to
\* work on: one follow-up for the first, none for the second
C38_Witness ==
    /\ leads[1].status = "REPLIED"
    /\ leads[2].status \in {"QUALIFIED", "CLOSED"}
    /\ Cardinality(FollowUpsTo(1)) = 1
    /\ FollowUpsTo(2) = {}
    /\ \A l \in ConvLeads :
          threads[UserOf(l)][Len(threads[UserOf(l)])].from = UserOf(l)
    /\ cevent.op = "no_leads"
    /\ conv.pc = "idle"

\* trigger t is active and has follow-up enabled
FollowUpOn(t) == triggers[t].is_active /\ triggers[t].follow_up_enabled

\* a poll_conversations run starts in this step
PollStarts == cpolls' = cpolls + 1

\* a poll_conversations run that starts while no active trigger has
\* follow-up enabled fetches nothing and writes nothing
ClosedGateDoesNothing ==
    (PollStarts /\ ~\E t \in 1..Len(triggers) : FollowUpOn(t))
        => /\ conv' = conv
           /\ session' = session
           /\ leads' = leads
           /\ threads' = threads
           /\ triggers' = triggers

\* C39 as stated: an AI follow-up is sent to a Lead only if the Lead's own
\* originating trigger is active and has follow-up enabled; with no active
\* follow-up trigger poll_conversations makes no remote call and changes
\* no state.
C39_OwnTriggerGate ==
    [][/\ \A l \in ConvLeads :
             FollowUpSent(l) => FollowUpOn(leads[l].trigger_id)
       /\ ClosedGateDoesNothing]_vars

\* C39 amended: an AI follow-up is sent only within a poll_conversations
\* run that found, when it started, some active trigger of the account
\* with follow-up enabled, whichever trigger the Lead came from; with no
\* such trigger poll_conversations makes no remote call and changes no
\* state.
C39_AccountWideGate ==
    [][/\ (conv.pc = "idle" /\ conv'.pc = "leads")
             => PollStarts /\ \E t \in 1..Len(triggers) : FollowUpOn(t)
       /\ \A l \in ConvLeads :
             threads'[UserOf(l)] # threads[UserOf(l)]
                /\ threads'[UserOf(l)][Len(threads'[UserOf(l)])].from = Page
                => conv.pc = "leads" /\ FollowUpSent(l)
       /\ ClosedGateDoesNothing]_vars

\* a follow-up has just gone to the lead of a trigger that is paused or
\* has follow-up disabled, while the other trigger is active with
\* follow-up enabled
C39_Witness ==
    /\ cevent.op = "replied"
    /\ cevent.id = 1
    /\ leads[1].status = "REPLIED"
    /\ leads[1].trigger_id = 1
    /\ ~FollowUpOn(1)
    /\ FollowUpOn(2)
    /\ Cardinality(FollowUpsTo(1)) = 1

====
